---- MODULE Spec2Model ----
(***************************************************************************)
(* Model of the PollPulse TN ingestion/processing pipeline:                *)
(*   - the job_queue life cycle driven by DataSystem.save_raw_json         *)
(*     (Producer) and processor.poll_and_process / process_job (Consumer), *)
(*   - the CircuitBreaker of infra/resilience.py.                          *)
(* Every store round trip of process_job is one step, so that several      *)
(* Consumers interleave exactly where the code talks to the store.  A      *)
(* store call wrapped in try/except in the source has two outcomes here:   *)
(* it succeeds, or it raises and the except branch of the source runs.     *)
(* Scores are integers in units of 1e-4 (the code rounds to 4 places).     *)
(***************************************************************************)
EXTENDS Integers, Sequences, FiniteSets, TLC

\* ------------------------------------------------------------------ bounds
MaxJobs == 2
MaxFaults == 1        \* failures injected when one Consumer runs
MaxRaceFaults == 1    \* failures injected when two Consumers run
MaxTime == 4
MaxThreshold == 2
MaxTimeout == 1
MaxFailures == 3
MaxResponses == 7
MaxDepth == 1            \* largest max_queue_depth tried
MaxRetries == 3          \* largest max_retries tried
MaxProdFaults == 2       \* store calls that may fail, Producer alone
MaxComments == 3         \* comments of a payload scanned for districts
MaxList == 3             \* comments handed to filter_quality_comments
MaxItems == 2            \* items in a stream handed to the classifier
MaxAdds == 103           \* source ids appended to one prediction row

\* ------------------------------------------------------- program constants
MAX_SOURCE_IDS == 100
AUTHORITATIVE_WEIGHT == 3
USER_WEIGHT == 1
MAX_INFLUENCE_PER_SOURCE == 500    \* 0.05, scores in units of 0.0001
MIN_COMMENT_QUALITY == 400         \* 0.4, quality in units of 0.001
half_open_success_threshold == 2
success_threshold_for_decrease == 5
cache_ttl == 30

ENABLE_DLQ == TRUE
ENABLE_METRICS == TRUE

Consumers == {"c1", "c2"}

None == "None"          \* a missing string
NoPath == 0             \* a missing file_path / job id (Python None)
NoData == [id |-> None] \* no payload (Python None)
NoRow == [present |-> FALSE]  \* a select that returned no row

Constituencies == {"Harbour", "Salem_West"}
Alliances == {"DMK_Front", "ADMK_Front"}
Keys == Constituencies \X Alliances

\* config/districts.json, reduced to two districts with one constituency each
GAZETTEER == [Chennai |-> <<"Harbour">>, Salem |-> <<"Salem_West">>]
Districts == <<"Chennai", "Salem">>

VALID_ALLIANCES == {"DMK_Front", "ADMK_Front"}   \* keys of config/alliances.json 'keywords'

\* ------------------------------------------------------------- arithmetic
Abs(x) == IF x < 0 THEN -x ELSE x

\* n/d rounded to the nearest integer, ties to even (Python's round)
RoundHalfEven(n, d) ==
  LET a == Abs(n)
      q == a \div d
      r == a % d
      m == IF 2 * r < d THEN q
           ELSE IF 2 * r > d THEN q + 1
           ELSE IF q % 2 = 0 THEN q ELSE q + 1
  IN  IF n < 0 THEN -m ELSE m

RECURSIVE CountLabel(_, _)
CountLabel(labels, x) ==
  IF labels = <<>> THEN 0
  ELSE (IF Head(labels) = x THEN 1 ELSE 0) + CountLabel(Tail(labels), x)

\* analyze_sentiment: counts per label; a classifier failure is swallowed and
\* leaves the counts of the (single) batch at zero
analyze_sentiment(texts, classifier_ok) ==
  IF classifier_ok
  THEN [positive |-> CountLabel(texts, "positive"),
        negative |-> CountLabel(texts, "negative"),
        neutral  |-> CountLabel(texts, "neutral")]
  ELSE [positive |-> 0, negative |-> 0, neutral |-> 0]

\* variant: both streams weigh the same
compute_weighted_sentiment_Flat(auth, user) ==
  LET wp == user.positive + auth.positive
      wn == user.negative + auth.negative
      wz == user.neutral + auth.neutral
  IN  [weighted_positive |-> wp, weighted_negative |-> wn,
       weighted_neutral |-> wz, total_weighted |-> wp + wn + wz]

compute_weighted_sentiment(auth, user) ==
  LET wp == user.positive * USER_WEIGHT + auth.positive * AUTHORITATIVE_WEIGHT
      wn == user.negative * USER_WEIGHT + auth.negative * AUTHORITATIVE_WEIGHT
      wz == user.neutral * USER_WEIGHT + auth.neutral * AUTHORITATIVE_WEIGHT
  IN  [weighted_positive |-> wp, weighted_negative |-> wn,
       weighted_neutral |-> wz, total_weighted |-> wp + wn + wz]

calculate_sentiment_score(r) ==
  IF r.total_weighted = 0 THEN 0
  ELSE RoundHalfEven((r.weighted_positive - r.weighted_negative) * 10000,
                     r.total_weighted)

\* variant: only the upper end is capped
apply_influence_cap_Upper(current_score, new_delta) ==
  current_score + (IF new_delta > MAX_INFLUENCE_PER_SOURCE
                   THEN MAX_INFLUENCE_PER_SOURCE ELSE new_delta)

\* current_score + max(-MAX, min(MAX, new_delta))
apply_influence_cap(current_score, new_delta) ==
  LET upper == IF new_delta < MAX_INFLUENCE_PER_SOURCE
               THEN new_delta ELSE MAX_INFLUENCE_PER_SOURCE
      capped_delta == IF upper > -MAX_INFLUENCE_PER_SOURCE
                      THEN upper ELSE -MAX_INFLUENCE_PER_SOURCE
  IN  current_score + capped_delta

\* variant: the state-wide update decays like a local one
MovingAverage_OneDecay(old_score, current_score, is_state_wide) ==
  RoundHalfEven(9 * old_score + current_score, 10)

\* variant: the old score is not decayed
MovingAverage_NoDecay(old_score, current_score, is_state_wide) ==
  IF is_state_wide
  THEN RoundHalfEven(100 * old_score + 5 * current_score, 100)
  ELSE RoundHalfEven(10 * old_score + current_score, 10)

\* new_score = round(old*decay + current*new_factor, 4)
MovingAverage(old_score, current_score, is_state_wide) ==
  IF is_state_wide
  THEN RoundHalfEven(95 * old_score + 5 * current_score, 100)
  ELSE RoundHalfEven(9 * old_score + current_score, 10)

\* --------------------------------------------------------------- payloads
\* A ContentPayload as the Consumer reads it.  title_hits / meta_hits are the
\* alliances / districts one of whose keywords occurs in title+description;
\* transcript_hits the districts with a keyword in the transcript (none
\* here), comment_hits[i] those with a keyword in comment i (none here).
Payload(id, alliance, title_hits, override, meta_hits, auth, comments, qs_ok) ==
  [id |-> id, alliance |-> alliance, title_hits |-> title_hits,
   location_override |-> override, meta_hits |-> meta_hits,
   transcript_hits |-> {},
   comment_hits |-> [i \in 1..Len(comments) |-> {}],
   authoritative_content |-> auth, user_comments |-> comments,
   quality_signals_ok |-> qs_ok]

PayLocal == Payload("v1", "DMK_Front", {}, "Chennai", {},
                    <<"positive", "positive">>, <<"negative">>, TRUE)
PayState == Payload("v2", "keywords", {"DMK_Front"}, None, {},
                    <<>>, <<"negative">>, TRUE)
PayEmpty == Payload("v3", "DMK_Front", {}, None, {}, <<>>, <<>>, TRUE)
PayMalformed == Payload("v4", "DMK_Front", {}, None, {},
                        <<"neutral">>, <<>>, FALSE)

Payloads == {PayLocal, PayState, PayEmpty, PayMalformed}

\* payloads of two alliances and of none, local and state-wide
PayRival == Payload("v5", "ADMK_Front", {}, "Salem", {},
                    <<"negative">>, <<>>, TRUE)
PayUnknown == Payload("v6", "Unknown", {}, None, {},
                      <<"positive">>, <<>>, TRUE)
PersistPayloads == {PayLocal, PayState, PayRival, PayUnknown}
ContentIds == {p.id : p \in Payloads}

\* a second local payload of the first alliance, and the queues two
\* Consumers are watched on: three jobs for the rows of one alliance, and a
\* queue with a repeated and a malformed payload
PayFollow == Payload("v7", "DMK_Front", {}, "Chennai", {},
                     <<"negative">>, <<>>, TRUE)
RaceQueues == {<<PayLocal, PayFollow, PayState>>,
               <<PayLocal, PayLocal, PayMalformed>>}

\* a blob of the bucket whose bytes json.loads does not parse
NotJson == [raw |-> "{"]
\* what the bucket may hold when the Consumer comes to a job: the payload as
\* saved, or bytes that are no JSON document
ParseBlobs == {PayLocal, PayMalformed, NotJson}

get_content_id(data) == data.id

detect_alliance(data) ==
  IF data.alliance # "" /\ data.alliance # "Unknown"
     /\ data.alliance \in VALID_ALLIANCES
  THEN data.alliance
  ELSE IF data.title_hits # {} THEN CHOOSE a \in data.title_hits : TRUE
  ELSE "Unknown"

\* sorted(list(detected_districts)); Districts is in sorted order
SortedDistricts(detected) == SelectSeq(Districts, LAMBDA d : d \in detected)

\* variant: two comments are enough
CrowdDistricts_Two(comment_hits) ==
  {d \in {Districts[i] : i \in 1..Len(Districts)} :
     Cardinality({i \in 1..Len(comment_hits) : d \in comment_hits[i]}) >= 2}

\* the districts mentioned in 3 or more comments
CrowdDistricts(comment_hits) ==
  {d \in {Districts[i] : i \in 1..Len(Districts)} :
     Cardinality({i \in 1..Len(comment_hits) : d \in comment_hits[i]}) >= 3}

detect_location(data) ==
  IF data.location_override # None THEN <<data.location_override>>
  ELSE IF data.meta_hits # {} THEN SortedDistricts(data.meta_hits)
  ELSE IF data.transcript_hits # {}
       THEN SortedDistricts(data.transcript_hits)
  ELSE IF CrowdDistricts(data.comment_hits) # {}
       THEN SortedDistricts(CrowdDistricts(data.comment_hits))
  ELSE <<"State_Wide">>

InSeq(x, s) == \E i \in 1..Len(s) : s[i] = x

get_all_constituencies == GAZETTEER["Chennai"] \o GAZETTEER["Salem"]

RECURSIVE get_constituencies_for_districts(_)
get_constituencies_for_districts(districts) ==
  IF districts = <<>> THEN <<>>
  ELSE (IF InSeq(Head(districts), Districts) THEN GAZETTEER[Head(districts)]
        ELSE <<>>) \o get_constituencies_for_districts(Tail(districts))

\* variant: a local update goes to every constituency too
PersistTargets_Everywhere(locations, alliance_name) ==
  IF alliance_name = "Unknown" THEN <<>>
  ELSE get_all_constituencies

\* the constituencies persist_predictions walks through
PersistTargets(locations, alliance_name) ==
  IF alliance_name = "Unknown" THEN <<>>
  ELSE IF InSeq("State_Wide", locations) THEN get_all_constituencies
  ELSE get_constituencies_for_districts(locations)

\* error_type of the generic except branch, by substring of str(e)
ErrorWords == {"model", "database", "connection"}
ClassifyError(words) ==
  IF "model" \in words THEN "ML_INFERENCE"
  ELSE IF "database" \in words THEN "DB_ERROR"
  ELSE IF "connection" \in words THEN "NETWORK"
  ELSE "UNKNOWN"

\* ------------------------------------------------------------------ state
VARIABLES
  active,                   \* the Consumer processes that run
  fault_budget,             \* how many calls may fail in this run
  ENABLE_DEDUPLICATION,     \* processor.py configuration flag
  storage,                  \* object store: blob at path i is storage[i]
  job_queue,                \* job_queue rows; the job id is the index
  processed_content,        \* dedup ledger: content ids (unique column)
  dead_letter_queue,        \* dead_letter_queue rows, in insertion order
  constituency_predictions, \* rows keyed by <<constituency, alliance>>
  pipeline_metrics,         \* pipeline_metrics rows (metric names)
  faults,                   \* store/classifier failures raised so far
  prod_pc, prod_path,       \* save_raw_json: position, uploaded path
  prod_result,              \* save_raw_json: last return value
  returned,                 \* save_raw_json: values returned so far, by what
                            \* happened in the call
  pc, job_id, file_path, data, exc, score, todo, row,
  exit_taken,               \* the branch process_job left (or leaves) through
  failed_calls              \* calls that raised in the current process_job

pipeVars == <<active, fault_budget, ENABLE_DEDUPLICATION, storage, job_queue,
              processed_content, dead_letter_queue, constituency_predictions,
              pipeline_metrics, faults, prod_pc, prod_path, prod_result,
              returned,
              pc, job_id, file_path, data, exc, score, todo, row,
              exit_taken, failed_calls>>

VARIABLES
  failure_threshold, reset_timeout,   \* CircuitBreaker constructor arguments
  failures, last_failure_time, state, success_count_in_half_open,
  now,                                \* time.time()
  result,                             \* what the last can_execute() returned
  called,                             \* the CircuitBreaker method called last
  streak                              \* record_failure() calls in a row since
                                      \* the breaker was CLOSED with 0 failures

cbVars == <<failure_threshold, reset_timeout, failures, last_failure_time,
            state, success_count_in_half_open, now, result, called,
            streak>>

\* AdaptiveRateLimiter; delays in units of 1e-5 s
VARIABLES
  base_delay, max_delay,      \* constructor arguments
  current_delay, consecutive_successes,
  status_code,                \* argument of the last handle_response (0: none)
  responses,                  \* handle_response calls so far
  ok_run                      \* 2xx responses since the last 429, 503, reset

rlVars == <<base_delay, max_delay, current_delay, consecutive_successes,
            status_code, responses, ok_run>>

\* BackpressureMonitor
VARIABLES
  max_queue_depth,            \* constructor argument
  last_depth, last_check_time,   \* _last_depth, _last_check_time
  bp_called,                  \* the method called last
  force_check,                \* is_overloaded: its argument in the last call
  bp_queried, bp_query_ok,    \* the last call queried the store / with success
  depth_returned,             \* get_queue_depth: last return value
  overloaded_returned,        \* is_overloaded: last return value
  queried_depth               \* PENDING count the last successful query saw
                              \* (-1: no query succeeded yet)

bpVars == <<max_queue_depth, last_depth, last_check_time, bp_called,
            force_check, bp_queried, bp_query_ok, depth_returned,
            overloaded_returned, queried_depth>>

\* RetryWithBackoff; delays in seconds
VARIABLES
  max_retries, retry_base_delay, retry_max_delay, exponential_base,
                              \* constructor arguments (base_delay, max_delay)
  retry_pc,                   \* where execute() is
  attempt, last_exception,    \* execute's locals; attempt i raises error i
                              \* (-1: None)
  calls,                      \* func calls of this execute(): TRUE returned,
                              \* FALSE raised; call i returns value i
  sleeps,                     \* the delays slept in this execute()
  events,                     \* its calls and sleeps in the order made
  retry_result,               \* value execute() returned (0: none)
  retry_raised                \* error execute() raised (-1: none)

retryVars == <<max_retries, retry_base_delay, retry_max_delay,
               exponential_base, retry_pc, attempt, last_exception, calls,
               sleeps, events, retry_result, retry_raised>>

\* a function of the program called on its own, as its tests call it
VARIABLES
  fn_in,                      \* the arguments it is called with
  fn_out,                     \* what it returned
  fn_done,                    \* it has been called
  appended                    \* upsert_constituency_prediction called in a
                              \* row: the source ids it appended, oldest first

fnVars == <<fn_in, fn_out, fn_done, appended>>

\* what an action of the pipeline / of the breaker / ... leaves alone
nonPipeVars == <<cbVars, rlVars, bpVars, retryVars, fnVars>>
nonCbVars == <<pipeVars, rlVars, bpVars, retryVars, fnVars>>
nonRlVars == <<pipeVars, cbVars, bpVars, retryVars, fnVars>>
nonBpVars == <<pipeVars, cbVars, rlVars, retryVars, fnVars>>
nonRetryVars == <<pipeVars, cbVars, rlVars, bpVars, fnVars>>
nonFnVars == <<cbVars, rlVars, bpVars, retryVars>>

storeVars == <<storage, job_queue, processed_content, dead_letter_queue,
               constituency_predictions, pipeline_metrics>>
prodVars == <<prod_pc, prod_path, prod_result, returned>>
localVars == <<job_id, file_path, data, exc, score, todo, row, exit_taken>>
cfgVars == <<active, fault_budget, ENABLE_DEDUPLICATION>>

vars == <<pipeVars, cbVars, rlVars, bpVars, retryVars, fnVars>>

\* the state after construction and after save_raw_json has saved, without
\* failure, one of the payload sequences `uploads`
InitQueued(workers, budget, dedup, uploads) ==
  /\ active = workers
  /\ fault_budget = budget
  /\ ENABLE_DEDUPLICATION \in dedup
  /\ storage \in uploads
  /\ job_queue = [i \in 1..Len(storage) |->
                    [status |-> "PENDING", file_path |-> i]]
  /\ processed_content = {}
  /\ dead_letter_queue = <<>>
  /\ constituency_predictions = [k \in Keys |-> NoRow]
  /\ pipeline_metrics = <<>>
  /\ faults = 0
  /\ prod_pc = "idle"
  /\ prod_path = 0
  /\ prod_result = Len(storage)
  /\ returned = [ok |-> 1..Len(storage), upload_failed |-> {},
                 insert_failed |-> {}]
  /\ pc = [c \in Consumers |-> "poll"]
  /\ job_id = [c \in Consumers |-> 0]
  /\ file_path = [c \in Consumers |-> NoPath]
  /\ data = [c \in Consumers |-> NoData]
  /\ exc = [c \in Consumers |-> {}]
  /\ score = [c \in Consumers |-> 0]
  /\ todo = [c \in Consumers |-> <<>>]
  /\ row = [c \in Consumers |-> NoRow]
  /\ exit_taken = [c \in Consumers |-> "none"]
  /\ failed_calls = [c \in Consumers |-> {}]

\* the state after construction, nothing saved yet
InitPipe(workers, budget, dedup) ==
  InitQueued(workers, budget, dedup, {<<>>})

NoTime == 0     \* last_failure_time = None; time.time() itself is positive

\* CircuitBreaker.__init__
InitCB(thresholds, timeouts) ==
  /\ failure_threshold \in thresholds
  /\ reset_timeout \in timeouts
  /\ failures = 0
  /\ last_failure_time = NoTime
  /\ state = "CLOSED"
  /\ success_count_in_half_open = 0
  /\ now = 1
  /\ result = "none"
  /\ called = "none"
  /\ streak = 0

Seconds(n) == n * 100000

\* AdaptiveRateLimiter.__init__
InitRL(bases, maxes) ==
  /\ base_delay \in bases
  /\ max_delay \in maxes
  /\ current_delay = base_delay
  /\ consecutive_successes = 0
  /\ status_code = 0
  /\ responses = 0
  /\ ok_run = 0

\* BackpressureMonitor.__init__
InitBP(depths) ==
  /\ max_queue_depth \in depths
  /\ last_depth = 0
  /\ last_check_time = NoTime
  /\ bp_called = "none"
  /\ force_check = FALSE
  /\ bp_queried = FALSE
  /\ bp_query_ok = FALSE
  /\ depth_returned = 0
  /\ overloaded_returned = FALSE
  /\ queried_depth = -1

\* RetryWithBackoff.__init__
InitRT(retries, bases, maxes, exps) ==
  /\ max_retries \in retries
  /\ retry_base_delay \in bases
  /\ retry_max_delay \in maxes
  /\ exponential_base \in exps
  /\ retry_pc = "idle"
  /\ attempt = 0
  /\ last_exception = -1
  /\ calls = <<>>
  /\ sleeps = <<>>
  /\ events = <<>>
  /\ retry_result = 0
  /\ retry_raised = -1

InitIdleRT == InitRT({3}, {1}, {30}, {2})

\* a function is called with one of the arguments `inputs`
InitFn(inputs) ==
  /\ fn_in \in inputs
  /\ fn_out = 0
  /\ fn_done = FALSE
  /\ appended = <<>>

InitIdleFn == InitFn({0})

\* the utilities of infra/resilience.py built with their default arguments,
\* not called
InitIdleUtil == InitRL({Seconds(2)}, {Seconds(60)}) /\ InitBP({500})
                /\ InitIdleRT /\ InitIdleFn

Init == InitPipe(Consumers, MaxRaceFaults, {TRUE})
        /\ InitCB({MaxThreshold}, {MaxTimeout}) /\ InitIdleUtil
InitOne == InitPipe({"c1"}, MaxFaults, BOOLEAN)
           /\ InitCB({MaxThreshold}, {MaxTimeout}) /\ InitIdleUtil

CanFail == faults < fault_budget
Raise(c, call) ==
  /\ CanFail
  /\ faults' = faults + 1
  /\ failed_calls' = [failed_calls EXCEPT ![c] = @ \cup {call}]
NoRaise == UNCHANGED <<faults, failed_calls>>

\* --------------------------------------------------------------- Producer
\* variant: a failed upload goes on to the job_queue insert
Upload_InsertsAnyway ==
  /\ prod_pc = "idle"
  /\ Len(storage) < MaxJobs
  /\ \/ \E p \in Payloads :
          /\ storage' = Append(storage, p)
          /\ prod_path' = Len(storage) + 1
          /\ prod_pc' = "insert"
          /\ UNCHANGED <<prod_result, returned, faults>>
     \/ /\ CanFail
        /\ faults' = faults + 1
        /\ prod_path' = Len(storage) + 1
        /\ prod_pc' = "insert"
        /\ UNCHANGED <<storage, prod_result, returned>>
  /\ UNCHANGED <<cfgVars, job_queue, processed_content, dead_letter_queue,
                 constituency_predictions, pipeline_metrics, pc, localVars,
                 failed_calls>>
  /\ UNCHANGED nonPipeVars

\* save_raw_json, step 1: upload the blob
Upload ==
  /\ prod_pc = "idle"
  /\ Len(storage) < MaxJobs
  /\ \/ \E p \in Payloads :
          /\ storage' = Append(storage, p)
          /\ prod_path' = Len(storage) + 1
          /\ prod_pc' = "insert"
          /\ UNCHANGED <<prod_result, returned, faults>>
     \/ /\ CanFail
        /\ faults' = faults + 1
        /\ prod_result' = NoPath
        /\ returned' = [returned EXCEPT !.upload_failed = @ \cup {NoPath}]
        /\ UNCHANGED <<storage, prod_path, prod_pc>>
  /\ UNCHANGED <<cfgVars, job_queue, processed_content, dead_letter_queue,
                 constituency_predictions, pipeline_metrics, pc, localVars,
                 failed_calls>>
  /\ UNCHANGED nonPipeVars

\* save_raw_json, step 2: insert the job_queue row at PENDING
InsertJob ==
  /\ prod_pc = "insert"
  /\ \/ /\ job_queue' = Append(job_queue,
                               [status |-> "PENDING", file_path |-> prod_path])
        /\ prod_result' = Len(job_queue) + 1
        /\ returned' = [returned EXCEPT !.ok = @ \cup {Len(job_queue) + 1}]
        /\ UNCHANGED faults
     \/ /\ CanFail
        /\ faults' = faults + 1
        /\ prod_result' = NoPath
        /\ returned' = [returned EXCEPT !.insert_failed = @ \cup {NoPath}]
        /\ UNCHANGED job_queue
  /\ prod_pc' = "idle"
  /\ UNCHANGED <<cfgVars, storage, prod_path, processed_content,
                 dead_letter_queue, constituency_predictions,
                 pipeline_metrics, pc, localVars, failed_calls>>
  /\ UNCHANGED nonPipeVars

\* --------------------------------------------------------------- Consumer
Goto(c, p) == pc' = [pc EXCEPT ![c] = p]

\* process_job returns to poll_and_process, its locals dropped; job_id,
\* exit_taken and failed_calls describe the finished run until LoopAgain
Return(c) ==
  /\ pc' = [pc EXCEPT ![c] = "returned"]
  /\ file_path' = [file_path EXCEPT ![c] = NoPath]
  /\ data' = [data EXCEPT ![c] = NoData]
  /\ exc' = [exc EXCEPT ![c] = {}]
  /\ score' = [score EXCEPT ![c] = 0]
  /\ todo' = [todo EXCEPT ![c] = <<>>]
  /\ row' = [row EXCEPT ![c] = NoRow]
  /\ UNCHANGED <<job_id, exit_taken>>

Pending == {j \in 1..Len(job_queue) : job_queue[j].status = "PENDING"}

\* poll_and_process: one round of the polling loop
Poll(c) ==
  /\ c \in active
  /\ pc[c] = "poll"
  /\ \/ \E j \in Pending :          \* select ... status = PENDING limit 1
          /\ job_id' = [job_id EXCEPT ![c] = j]
          /\ exit_taken' = [exit_taken EXCEPT ![c] = "none"]
          /\ failed_calls' = [failed_calls EXCEPT ![c] = {}]
          /\ Goto(c, "st_processing")
          /\ UNCHANGED faults
     \/ /\ Pending = {}             \* no row: time.sleep(poll_interval)
        /\ UNCHANGED <<pc, job_id, exit_taken, failed_calls, faults>>
     \/ /\ CanFail                  \* the select raises: sleep and retry
        /\ faults' = faults + 1
        /\ UNCHANGED <<pc, job_id, exit_taken, failed_calls>>
  /\ UNCHANGED <<cfgVars, storeVars, prodVars, file_path, data, exc, score,
                 todo, row>>
  /\ UNCHANGED nonPipeVars

\* poll_and_process: process_job has returned, next round of the loop
LoopAgain(c) ==
  /\ c \in active
  /\ pc[c] = "returned"
  /\ Goto(c, "poll")
  /\ job_id' = [job_id EXCEPT ![c] = NoPath]
  /\ exit_taken' = [exit_taken EXCEPT ![c] = "none"]
  /\ failed_calls' = [failed_calls EXCEPT ![c] = {}]
  /\ UNCHANGED <<cfgVars, storeVars, prodVars, file_path, data, exc, score,
                 todo, row, faults>>
  /\ UNCHANGED nonPipeVars

\* the places of process_job that call update_job_status, with the status
\* they pass and the place the code goes to next ("return" leaves process_job)
StatusPcs == {"st_processing", "st_failed_dl", "st_failed_exc",
              "st_done_dup", "st_done_empty", "st_done"}
\* variant: a failed download is closed as DONE
StatusAt_DownloadDone(p) ==
  CASE p = "st_processing" -> "PROCESSING"
    [] p = "st_failed_exc" -> "FAILED"
    [] OTHER -> "DONE"

StatusAt(p) ==
  CASE p = "st_processing" -> "PROCESSING"
    [] p \in {"st_failed_dl", "st_failed_exc"} -> "FAILED"
    [] OTHER -> "DONE"
AfterStatus(p) ==
  CASE p = "st_processing" -> "get_job"
    [] p = "st_done_dup" -> "metric_dup"
    [] p = "st_done" -> "metric_latency"
    [] OTHER -> "return"

\* the row update of update_job_status: unconditional, keyed by id only
SetStatus(q, j, status) == [q EXCEPT ![j].status = status]

\* DataSystem.update_job_status called from process_job
UpdateJobStatus(c) ==
  /\ c \in active
  /\ pc[c] \in StatusPcs
  /\ \/ /\ job_queue' = SetStatus(job_queue, job_id[c], StatusAt(pc[c]))
        /\ NoRaise
     \/ /\ Raise(c, "update_job_status")   \* swallowed by update_job_status
        /\ UNCHANGED job_queue
  /\ IF AfterStatus(pc[c]) = "return"
     THEN Return(c)
     ELSE Goto(c, AfterStatus(pc[c])) /\ UNCHANGED localVars
  /\ UNCHANGED <<cfgVars, storage, processed_content, dead_letter_queue,
                 constituency_predictions, pipeline_metrics, prodVars>>
  /\ UNCHANGED nonPipeVars

\* process_job: select file_path, metadata of the job row
GetJob(c) ==
  /\ c \in active
  /\ pc[c] = "get_job"
  /\ \/ /\ file_path' = [file_path EXCEPT ![c] = job_queue[job_id[c]].file_path]
        /\ Goto(c, "download")
        /\ NoRaise
        /\ UNCHANGED <<exc, exit_taken>>
     \/ \E words \in {{w} : w \in ErrorWords} \cup {{}} :
          \* the select raises: generic except branch, file_path still None,
          \* so add_to_dlq is skipped
          /\ Raise(c, "get_job")
          /\ exc' = [exc EXCEPT ![c] = words]
          /\ exit_taken' = [exit_taken EXCEPT ![c] = "exception"]
          /\ Goto(c, "st_failed_exc")
          /\ UNCHANGED file_path
  /\ UNCHANGED <<cfgVars, storeVars, prodVars, job_id, data, score, todo, row>>
  /\ UNCHANGED nonPipeVars

\* DataSystem.get_file_from_storage called from process_job
Download(c) ==
  /\ c \in active
  /\ pc[c] = "download"
  /\ \/ /\ storage[file_path[c]] # NotJson
        /\ data' = [data EXCEPT ![c] = storage[file_path[c]]]
        /\ Goto(c, "dedup")
        /\ NoRaise
        /\ UNCHANGED exit_taken
     \/ /\ storage[file_path[c]] = NotJson
        \* json.loads raises inside the try: swallowed, returns None
        /\ failed_calls' = [failed_calls EXCEPT ![c] = @ \cup {"json_loads"}]
        /\ exit_taken' = [exit_taken EXCEPT ![c] = "download_failed"]
        /\ Goto(c, "dlq_network")
        /\ UNCHANGED <<data, faults>>
     \/ /\ Raise(c, "download")     \* swallowed: returns None
        /\ exit_taken' = [exit_taken EXCEPT ![c] = "download_failed"]
        /\ Goto(c, "dlq_network")
        /\ UNCHANGED data
  /\ UNCHANGED <<cfgVars, storeVars, prodVars, job_id, file_path, exc, score,
                 todo, row>>
  /\ UNCHANGED nonPipeVars

\* variant: the dead-letter record is written without the payload
DlqRecord_NoPayload(c) ==
  [original_job_id |-> job_id[c], file_path |-> file_path[c],
   error_type |-> IF pc[c] = "dlq_network" THEN "NETWORK"
                  ELSE ClassifyError(exc[c]),
   payload |-> NoData]

DlqRecord(c) ==
  [original_job_id |-> job_id[c], file_path |-> file_path[c],
   error_type |-> IF pc[c] = "dlq_network" THEN "NETWORK"
                  ELSE ClassifyError(exc[c]),
   payload |-> IF pc[c] = "dlq_network" THEN NoData ELSE data[c]]

\* add_to_dlq called from process_job
AddToDlq(c) ==
  /\ c \in active
  /\ pc[c] \in {"dlq_network", "dlq_exc"}
  /\ \/ /\ dead_letter_queue' =
             IF ENABLE_DLQ THEN Append(dead_letter_queue, DlqRecord(c))
             ELSE dead_letter_queue
        /\ NoRaise
     \/ /\ ENABLE_DLQ
        /\ Raise(c, "add_to_dlq")   \* swallowed by add_to_dlq
        /\ UNCHANGED dead_letter_queue
  /\ Goto(c, IF pc[c] = "dlq_network" THEN "st_failed_dl" ELSE "st_failed_exc")
  /\ UNCHANGED <<cfgVars, storage, job_queue, processed_content,
                 constituency_predictions, pipeline_metrics, prodVars,
                 localVars>>
  /\ UNCHANGED nonPipeVars

\* variant: the rows the ledger select returns are not looked at
is_duplicate_content_Unread(ledger, content_id, lookup_ok) ==
  IF ~ENABLE_DEDUPLICATION THEN FALSE
  ELSE IF lookup_ok THEN FALSE
  ELSE FALSE

\* is_duplicate_content, given whether the ledger select succeeded
is_duplicate_content(ledger, content_id, lookup_ok) ==
  IF ~ENABLE_DEDUPLICATION THEN FALSE
  ELSE IF lookup_ok THEN content_id \in ledger
  ELSE FALSE

\* process_job from get_content_id to the call of detect_location
DedupCheck(c) ==
  /\ c \in active
  /\ pc[c] = "dedup"
  /\ \E lookup_ok \in BOOLEAN :
       /\ IF lookup_ok \/ ~ENABLE_DEDUPLICATION
          THEN lookup_ok /\ NoRaise
          ELSE Raise(c, "is_duplicate_content")
       /\ LET d == data[c]
              dup == is_duplicate_content(processed_content,
                                          get_content_id(d), lookup_ok)
              empty == d.authoritative_content = <<>> /\ d.user_comments = <<>>
              branch == IF dup THEN "duplicate"
                        ELSE IF empty THEN "empty"
                        ELSE IF ~d.quality_signals_ok THEN "exception"
                        ELSE "none"
          IN  /\ exit_taken' = [exit_taken EXCEPT ![c] = branch]
              /\ Goto(c, CASE branch = "duplicate" -> "st_done_dup"
                           [] branch = "empty" -> "st_done_empty"
                           [] branch = "exception" -> "dlq_exc"
                           [] OTHER -> "classify")
              \* AttributeError on quality_signals: none of the words
              /\ exc' = [exc EXCEPT ![c] = {}]
  /\ UNCHANGED <<cfgVars, storeVars, prodVars, job_id, file_path, data, score,
                 todo, row>>
  /\ UNCHANGED nonPipeVars

\* compute_weighted_sentiment, calculate_sentiment_score and the head of
\* persist_predictions; each non-empty stream is one classifier call
Classify(c) ==
  /\ c \in active
  /\ pc[c] = "classify"
  /\ \E auth_ok, user_ok \in BOOLEAN :
       LET d == data[c]
           auth_call == d.authoritative_content # <<>>
           user_call == d.user_comments # <<>>
           nfail == (IF auth_ok THEN 0 ELSE 1) + (IF user_ok THEN 0 ELSE 1)
           sentiment_results == compute_weighted_sentiment(
                       analyze_sentiment(d.authoritative_content, auth_ok),
                       analyze_sentiment(d.user_comments, user_ok))
           targets == PersistTargets(detect_location(d), detect_alliance(d))
       IN  /\ auth_ok \/ auth_call
           /\ user_ok \/ user_call
           /\ faults + nfail <= fault_budget
           /\ faults' = faults + nfail
           /\ failed_calls' = [failed_calls EXCEPT ![c] =
                 IF nfail > 0 THEN @ \cup {"classifier"} ELSE @]
           /\ score' = [score EXCEPT ![c] = calculate_sentiment_score(sentiment_results)]
           /\ todo' = [todo EXCEPT ![c] = targets]
           /\ exit_taken' = [exit_taken EXCEPT ![c] = "scored"]
           /\ Goto(c, IF targets = <<>> THEN "mark" ELSE "upsert_read")
  /\ UNCHANGED <<cfgVars, storeVars, prodVars, job_id, file_path, data, exc,
                 row>>
  /\ UNCHANGED nonPipeVars

\* variant: the first n elements are kept (old_sources[:100])
LastN_Oldest(s, n) == IF Len(s) <= n THEN s ELSE SubSeq(s, 1, n)

\* the last MAX_SOURCE_IDS elements of s (old_sources[-100:])
LastN(s, n) == IF Len(s) <= n THEN s ELSE SubSeq(s, Len(s) - n + 1, Len(s))

\* variant: a content id that is in the list leaves the whole row as it is
UpdatedRow_SkipsKnown(old, current_score, is_state_wide, source_id) ==
  LET fresh == ~InSeq(source_id, old.source_ids)
  IN  IF ~fresh THEN old
      ELSE [present |-> TRUE,
            sentiment_score |->
              MovingAverage(old.sentiment_score, current_score, is_state_wide),
            source_ids |-> LastN(Append(old.source_ids, source_id),
                                 MAX_SOURCE_IDS),
            source_count |-> old.source_count + 1]

\* variant: source_count is the length of the list written
UpdatedRow_CountsLength(old, current_score, is_state_wide, source_id) ==
  LET fresh == ~InSeq(source_id, old.source_ids)
  IN  [present |-> TRUE,
       sentiment_score |->
         MovingAverage(old.sentiment_score, current_score, is_state_wide),
       source_ids |-> IF fresh
                      THEN LastN(Append(old.source_ids, source_id),
                                 MAX_SOURCE_IDS)
                      ELSE old.source_ids,
       source_count |-> IF fresh
                        THEN Len(LastN(Append(old.source_ids, source_id),
                                       MAX_SOURCE_IDS))
                        ELSE old.source_count]

\* the row upsert_constituency_prediction writes over an existing row
UpdatedRow(old, current_score, is_state_wide, source_id) ==
  LET fresh == ~InSeq(source_id, old.source_ids)
  IN  [present |-> TRUE,
       sentiment_score |->
         MovingAverage(old.sentiment_score, current_score, is_state_wide),
       source_ids |-> IF fresh
                      THEN LastN(Append(old.source_ids, source_id),
                                 MAX_SOURCE_IDS)
                      ELSE old.source_ids,
       source_count |-> IF fresh THEN old.source_count + 1
                        ELSE old.source_count]

\* the row upsert_constituency_prediction inserts when it found none
InsertedRow(current_score, source_id) ==
  [present |-> TRUE, sentiment_score |-> current_score,
   source_ids |-> <<source_id>>, source_count |-> 1]

\* variant: the ledger row is written after the first constituency
NextUpsert_LedgerFirst(c) ==
  /\ todo' = [todo EXCEPT ![c] = Tail(@)]
  /\ row' = [row EXCEPT ![c] = NoRow]
  /\ Goto(c, "mark")

\* persist_predictions moves on to the next constituency
NextUpsert(c) ==
  /\ todo' = [todo EXCEPT ![c] = Tail(@)]
  /\ row' = [row EXCEPT ![c] = NoRow]
  /\ Goto(c, IF Tail(todo[c]) = <<>> THEN "mark" ELSE "upsert_read")

\* variant: a failed select is not swallowed and reaches the handler
UpsertRead_Propagates(c) ==
  /\ c \in active
  /\ pc[c] = "upsert_read"
  /\ \/ /\ row' = [row EXCEPT ![c] =
             constituency_predictions[<<Head(todo[c]), detect_alliance(data[c])>>]]
        /\ Goto(c, "upsert_write")
        /\ NoRaise
        /\ UNCHANGED <<todo, exc, exit_taken>>
     \/ /\ Raise(c, "prediction_read")
        /\ exc' = [exc EXCEPT ![c] = {"database"}]
        /\ exit_taken' = [exit_taken EXCEPT ![c] = "exception"]
        /\ Goto(c, "dlq_exc")
        /\ UNCHANGED <<todo, row>>
  /\ UNCHANGED <<cfgVars, storeVars, prodVars, job_id, file_path, data,
                 score>>
  /\ UNCHANGED nonPipeVars

\* upsert_constituency_prediction: the select of the row
UpsertRead(c) ==
  /\ c \in active
  /\ pc[c] = "upsert_read"
  /\ \/ /\ row' = [row EXCEPT ![c] =
             constituency_predictions[<<Head(todo[c]), detect_alliance(data[c])>>]]
        /\ Goto(c, "upsert_write")
        /\ NoRaise
        /\ UNCHANGED todo
     \/ /\ Raise(c, "prediction_read")   \* swallowed: returns False
        /\ NextUpsert(c)
  /\ UNCHANGED <<cfgVars, storeVars, prodVars, job_id, file_path, data, exc,
                 score, exit_taken>>
  /\ UNCHANGED nonPipeVars

\* variant: the update starts from the row as it is at the time of the write
UpsertWrite_Rereads(c) ==
  /\ c \in active
  /\ pc[c] = "upsert_write"
  /\ LET k == <<Head(todo[c]), detect_alliance(data[c])>>
         sw == InSeq("State_Wide", detect_location(data[c]))
         cid == get_content_id(data[c])
     IN  \/ /\ row[c] # NoRow            \* update ... where key
            /\ constituency_predictions' =
                 [constituency_predictions EXCEPT
                    ![k] = UpdatedRow(constituency_predictions[k],
                                       score[c], sw, cid)]
            /\ NoRaise
         \/ /\ row[c] = NoRow            \* insert
            /\ constituency_predictions[k] = NoRow
            /\ constituency_predictions' =
                 [constituency_predictions EXCEPT
                    ![k] = InsertedRow(score[c], cid)]
            /\ NoRaise
         \/ /\ row[c] = NoRow            \* insert hits the unique key
            /\ constituency_predictions[k] # NoRow
            /\ failed_calls' = [failed_calls EXCEPT ![c] =
                                  @ \cup {"prediction_write"}]
            /\ UNCHANGED <<constituency_predictions, faults>>
         \/ /\ Raise(c, "prediction_write")  \* swallowed: returns False
            /\ UNCHANGED constituency_predictions
  /\ NextUpsert(c)
  /\ UNCHANGED <<cfgVars, storage, job_queue, processed_content,
                 dead_letter_queue, pipeline_metrics, prodVars, job_id,
                 file_path, data, exc, score, exit_taken>>
  /\ UNCHANGED nonPipeVars

\* upsert_constituency_prediction: the update or insert of the row
UpsertWrite(c) ==
  /\ c \in active
  /\ pc[c] = "upsert_write"
  /\ LET k == <<Head(todo[c]), detect_alliance(data[c])>>
         sw == InSeq("State_Wide", detect_location(data[c]))
         cid == get_content_id(data[c])
     IN  \/ /\ row[c] # NoRow            \* update ... where key
            /\ constituency_predictions' =
                 [constituency_predictions EXCEPT
                    ![k] = UpdatedRow(row[c], score[c], sw, cid)]
            /\ NoRaise
         \/ /\ row[c] = NoRow            \* insert
            /\ constituency_predictions[k] = NoRow
            /\ constituency_predictions' =
                 [constituency_predictions EXCEPT
                    ![k] = InsertedRow(score[c], cid)]
            /\ NoRaise
         \/ /\ row[c] = NoRow            \* insert hits the unique key
            /\ constituency_predictions[k] # NoRow
            /\ failed_calls' = [failed_calls EXCEPT ![c] =
                                  @ \cup {"prediction_write"}]
            /\ UNCHANGED <<constituency_predictions, faults>>
         \/ /\ Raise(c, "prediction_write")  \* swallowed: returns False
            /\ UNCHANGED constituency_predictions
  /\ NextUpsert(c)
  /\ UNCHANGED <<cfgVars, storage, job_queue, processed_content,
                 dead_letter_queue, pipeline_metrics, prodVars, job_id,
                 file_path, data, exc, score, exit_taken>>
  /\ UNCHANGED nonPipeVars

\* mark_content_processed called from process_job
MarkContentProcessed(c) ==
  /\ c \in active
  /\ pc[c] = "mark"
  /\ \/ /\ processed_content' =
             IF ENABLE_DEDUPLICATION
             THEN processed_content \cup {get_content_id(data[c])}
             ELSE processed_content
        /\ ENABLE_DEDUPLICATION => get_content_id(data[c]) \notin processed_content
        /\ NoRaise
     \/ /\ ENABLE_DEDUPLICATION          \* duplicate key: swallowed
        /\ get_content_id(data[c]) \in processed_content
        /\ failed_calls' = [failed_calls EXCEPT ![c] =
                              @ \cup {"mark_content_processed"}]
        /\ UNCHANGED <<processed_content, faults>>
     \/ /\ ENABLE_DEDUPLICATION          \* insert raises: swallowed
        /\ Raise(c, "mark_content_processed")
        /\ UNCHANGED processed_content
  /\ Goto(c, "st_done")
  /\ UNCHANGED <<cfgVars, storage, job_queue, dead_letter_queue,
                 constituency_predictions, pipeline_metrics, prodVars,
                 localVars>>
  /\ UNCHANGED nonPipeVars

MetricPcs == {"metric_dup", "metric_latency", "metric_score"}
MetricAt(p) ==
  CASE p = "metric_dup" -> "duplicate_skipped"
    [] p = "metric_latency" -> "processing_latency_ms"
    [] OTHER -> "sentiment_score"

\* variant: a failed metrics insert is not swallowed and reaches the handler
LogMetric_Propagates(c) ==
  /\ c \in active
  /\ pc[c] \in MetricPcs
  /\ \/ /\ pipeline_metrics' =
             IF ENABLE_METRICS THEN Append(pipeline_metrics, MetricAt(pc[c]))
             ELSE pipeline_metrics
        /\ NoRaise
        /\ IF pc[c] = "metric_latency"
           THEN Goto(c, "metric_score") /\ UNCHANGED localVars
           ELSE Return(c)
     \/ /\ ENABLE_METRICS
        /\ Raise(c, "log_metric")
        /\ UNCHANGED pipeline_metrics
        /\ Goto(c, "dlq_exc") /\ UNCHANGED localVars
  /\ UNCHANGED <<cfgVars, storage, job_queue, processed_content,
                 dead_letter_queue, constituency_predictions, prodVars>>
  /\ UNCHANGED nonPipeVars

\* log_metric called from process_job
LogMetric(c) ==
  /\ c \in active
  /\ pc[c] \in MetricPcs
  /\ \/ /\ pipeline_metrics' =
             IF ENABLE_METRICS THEN Append(pipeline_metrics, MetricAt(pc[c]))
             ELSE pipeline_metrics
        /\ NoRaise
     \/ /\ ENABLE_METRICS
        /\ Raise(c, "log_metric")        \* swallowed by log_metric
        /\ UNCHANGED pipeline_metrics
  /\ IF pc[c] = "metric_latency"
     THEN Goto(c, "metric_score") /\ UNCHANGED localVars
     ELSE Return(c)
  /\ UNCHANGED <<cfgVars, storage, job_queue, processed_content,
                 dead_letter_queue, constituency_predictions, prodVars>>
  /\ UNCHANGED nonPipeVars

\* ---------------------------------------------------------- CircuitBreaker
\* variant: the breaker probes as soon as reset_timeout has elapsed
TimeoutElapsed_AtTimeout ==
  last_failure_time # NoTime /\ now - last_failure_time >= reset_timeout

\* the test of can_execute in state OPEN
TimeoutElapsed ==
  last_failure_time # NoTime /\ now - last_failure_time > reset_timeout

\* CircuitBreaker.can_execute
CanExecute ==
  /\ IF state = "OPEN" /\ TimeoutElapsed
     THEN /\ state' = "HALF_OPEN"
          /\ success_count_in_half_open' = 0
          /\ result' = "true"
          /\ streak' = -1
     ELSE /\ result' = IF state = "OPEN" THEN "false" ELSE "true"
          /\ UNCHANGED <<state, success_count_in_half_open, streak>>
  /\ called' = "can_execute"
  /\ UNCHANGED <<failure_threshold, reset_timeout, failures,
                 last_failure_time, now>>
  /\ UNCHANGED nonCbVars

\* variant: a success in CLOSED leaves the failure counter alone
RecordSuccess_NoReset ==
  /\ IF state = "HALF_OPEN"
     THEN /\ success_count_in_half_open' = success_count_in_half_open + 1
          /\ IF success_count_in_half_open + 1 >= half_open_success_threshold
             THEN state' = "CLOSED" /\ failures' = 0 /\ streak' = 0
             ELSE UNCHANGED <<state, failures>> /\ streak' = -1
     ELSE /\ failures' = IF state = "CLOSED" THEN failures ELSE 0
          /\ streak' = IF state = "CLOSED" THEN 0 ELSE -1
          /\ UNCHANGED <<state, success_count_in_half_open>>
  /\ result' = "none"
  /\ called' = "record_success"
  /\ UNCHANGED <<failure_threshold, reset_timeout, last_failure_time, now>>
  /\ UNCHANGED nonCbVars

\* variant: closing the breaker keeps the failure counter
RecordSuccess_KeepsFailures ==
  /\ IF state = "HALF_OPEN"
     THEN /\ success_count_in_half_open' = success_count_in_half_open + 1
          /\ IF success_count_in_half_open + 1 >= half_open_success_threshold
             THEN state' = "CLOSED" /\ UNCHANGED failures /\ streak' = 0
             ELSE UNCHANGED <<state, failures>> /\ streak' = -1
     ELSE /\ failures' = 0
          /\ streak' = IF state = "CLOSED" THEN 0 ELSE -1
          /\ UNCHANGED <<state, success_count_in_half_open>>
  /\ result' = "none"
  /\ called' = "record_success"
  /\ UNCHANGED <<failure_threshold, reset_timeout, last_failure_time, now>>
  /\ UNCHANGED nonCbVars

\* CircuitBreaker.record_success
RecordSuccess ==
  /\ IF state = "HALF_OPEN"
     THEN /\ success_count_in_half_open' = success_count_in_half_open + 1
          /\ IF success_count_in_half_open + 1 >= half_open_success_threshold
             THEN state' = "CLOSED" /\ failures' = 0 /\ streak' = 0
             ELSE UNCHANGED <<state, failures>> /\ streak' = -1
     ELSE /\ failures' = 0
          /\ streak' = IF state = "CLOSED" THEN 0 ELSE -1
          /\ UNCHANGED <<state, success_count_in_half_open>>
  /\ result' = "none"
  /\ called' = "record_success"
  /\ UNCHANGED <<failure_threshold, reset_timeout, last_failure_time, now>>
  /\ UNCHANGED nonCbVars

\* variant: a failed probe opens the breaker only at the threshold
StateAfterFailure_NoAbort(old_state, new_failures, threshold) ==
  IF new_failures >= threshold THEN "OPEN"
  ELSE old_state

\* variant: the breaker opens one failure late
StateAfterFailure_Late(old_state, new_failures, threshold) ==
  IF old_state = "HALF_OPEN" THEN "OPEN"
  ELSE IF new_failures > threshold THEN "OPEN"
  ELSE old_state

\* the state record_failure leaves the breaker in
StateAfterFailure(old_state, new_failures, threshold) ==
  IF old_state = "HALF_OPEN" THEN "OPEN"
  ELSE IF new_failures >= threshold THEN "OPEN"
  ELSE old_state

\* variant: a failure recorded in OPEN keeps the time of the earlier one
RecordFailure_StampsOnce ==
  /\ failures < MaxFailures
  /\ failures' = failures + 1
  /\ last_failure_time' = IF state = "OPEN" THEN last_failure_time ELSE now
  /\ state' = StateAfterFailure(state, failures + 1, failure_threshold)
  /\ streak' = IF streak >= 0 THEN streak + 1 ELSE -1
  /\ result' = "none"
  /\ called' = "record_failure"
  /\ UNCHANGED <<failure_threshold, reset_timeout,
                 success_count_in_half_open, now>>
  /\ UNCHANGED nonCbVars

\* CircuitBreaker.record_failure
RecordFailure ==
  /\ failures < MaxFailures
  /\ failures' = failures + 1
  /\ last_failure_time' = now
  /\ state' = StateAfterFailure(state, failures + 1, failure_threshold)
  /\ streak' = IF streak >= 0 THEN streak + 1 ELSE -1
  /\ result' = "none"
  /\ called' = "record_failure"
  /\ UNCHANGED <<failure_threshold, reset_timeout,
                 success_count_in_half_open, now>>
  /\ UNCHANGED nonCbVars

\* variant: reset closes the breaker and keeps the failure counter
Reset_KeepsFailures ==
  /\ UNCHANGED failures
  /\ state' = "CLOSED"
  /\ last_failure_time' = NoTime
  /\ streak' = 0
  /\ result' = "none"
  /\ called' = "reset"
  /\ UNCHANGED <<failure_threshold, reset_timeout,
                 success_count_in_half_open, now>>
  /\ UNCHANGED nonCbVars

\* CircuitBreaker.reset
Reset ==
  /\ failures' = 0
  /\ state' = "CLOSED"
  /\ last_failure_time' = NoTime
  /\ streak' = 0
  /\ result' = "none"
  /\ called' = "reset"
  /\ UNCHANGED <<failure_threshold, reset_timeout,
                 success_count_in_half_open, now>>
  /\ UNCHANGED nonCbVars

\* time.time() moves on
Tick ==
  /\ now < MaxTime
  /\ now' = now + 1
  /\ result' = "none"
  /\ called' = "none"
  /\ UNCHANGED <<failure_threshold, reset_timeout, failures,
                 last_failure_time, state, success_count_in_half_open, streak>>
  /\ UNCHANGED nonCbVars

\* ----------------------------------------------------- AdaptiveRateLimiter
StatusCodes == {200, 299, 300, 404, 429, 503}
Min2(a, b) == IF a < b THEN a ELSE b
Max2(a, b) == IF a > b THEN a ELSE b

\* variant: the decayed delay is not held at base_delay
handle_response_delay_NoFloor(code, d, successes) ==
  IF code = 429 THEN Min2(2 * d, max_delay)
  ELSE IF code = 503 THEN Min2((3 * d) \div 2, max_delay)
  ELSE IF 200 <= code /\ code < 300
          /\ successes + 1 >= success_threshold_for_decrease
       THEN (9 * d) \div 10
  ELSE d

\* variant: the doubled delay is not capped
handle_response_delay_Uncapped(code, d, successes) ==
  IF code = 429 THEN 2 * d
  ELSE IF code = 503 THEN Min2((3 * d) \div 2, max_delay)
  ELSE IF 200 <= code /\ code < 300
          /\ successes + 1 >= success_threshold_for_decrease
       THEN Max2(base_delay, (9 * d) \div 10)
  ELSE d

\* variant: the delay decays one success late
handle_response_delay_Late(code, d, successes) ==
  IF code = 429 THEN Min2(2 * d, max_delay)
  ELSE IF code = 503 THEN Min2((3 * d) \div 2, max_delay)
  ELSE IF 200 <= code /\ code < 300
          /\ successes + 1 > success_threshold_for_decrease
       THEN Max2(base_delay, (9 * d) \div 10)
  ELSE d

\* current_delay after handle_response(code)
handle_response_delay(code, d, successes) ==
  IF code = 429 THEN Min2(2 * d, max_delay)
  ELSE IF code = 503 THEN Min2((3 * d) \div 2, max_delay)
  ELSE IF 200 <= code /\ code < 300
          /\ successes + 1 >= success_threshold_for_decrease
       THEN Max2(base_delay, (9 * d) \div 10)
  ELSE d

\* consecutive_successes after handle_response(code)
handle_response_successes(code, successes) ==
  IF code = 429 \/ code = 503 THEN 0
  ELSE IF 200 <= code /\ code < 300
       THEN IF successes + 1 >= success_threshold_for_decrease
            THEN 0 ELSE successes + 1
  ELSE successes

\* AdaptiveRateLimiter.handle_response
HandleResponse ==
  /\ responses < MaxResponses
  /\ \E code \in StatusCodes :
       /\ status_code' = code
       /\ current_delay' =
            handle_response_delay(code, current_delay, consecutive_successes)
       /\ consecutive_successes' =
            handle_response_successes(code, consecutive_successes)
       /\ ok_run' = IF code = 429 \/ code = 503 THEN 0
                    ELSE IF 200 <= code /\ code < 300 THEN ok_run + 1
                    ELSE ok_run
  /\ responses' = responses + 1
  /\ UNCHANGED <<base_delay, max_delay>>
  /\ UNCHANGED nonRlVars

\* AdaptiveRateLimiter.reset
RateLimiterReset ==
  /\ current_delay' = base_delay
  /\ consecutive_successes' = 0
  /\ status_code' = 0
  /\ ok_run' = 0
  /\ UNCHANGED <<base_delay, max_delay, responses>>
  /\ UNCHANGED nonRlVars

\* ----------------------------------------------------- BackpressureMonitor
\* time.time() - t, one step of now being 15 s
SecondsSince(t) == (now - t) * 15

\* variant: the cache still counts when exactly the TTL old
CacheFresh_AtTtl ==
  last_check_time # NoTime /\ SecondsSince(last_check_time) <= cache_ttl

\* is_overloaded: the cached depth is used
CacheFresh ==
  last_check_time # NoTime /\ SecondsSince(last_check_time) < cache_ttl

\* variant: a failed query answers 0
get_queue_depth_result_Zero(ok) == IF ok THEN Cardinality(Pending) ELSE 0

\* get_queue_depth: what it returns, the query succeeding or raising
get_queue_depth_result(ok) == IF ok THEN Cardinality(Pending) ELSE last_depth

\* get_queue_depth: what it stores
QueryDepth(ok) ==
  /\ bp_queried' = TRUE
  /\ bp_query_ok' = ok
  /\ IF ok
     THEN /\ last_depth' = Cardinality(Pending)
          /\ last_check_time' = now
          /\ queried_depth' = Cardinality(Pending)
     ELSE UNCHANGED <<last_depth, last_check_time, queried_depth>>

\* BackpressureMonitor.get_queue_depth
GetQueueDepth ==
  /\ \E ok \in BOOLEAN :
       /\ QueryDepth(ok)
       /\ depth_returned' = get_queue_depth_result(ok)
  /\ bp_called' = "get_queue_depth"
  /\ UNCHANGED <<max_queue_depth, force_check, overloaded_returned>>
  /\ UNCHANGED nonBpVars

\* BackpressureMonitor.is_overloaded
IsOverloaded ==
  /\ \E force \in BOOLEAN :
       /\ force_check' = force
       /\ IF ~force /\ CacheFresh
          THEN /\ overloaded_returned' = (last_depth > max_queue_depth)
               /\ bp_queried' = FALSE
               /\ UNCHANGED <<bp_query_ok, last_depth, last_check_time,
                              queried_depth>>
          ELSE \E ok \in BOOLEAN :
                 /\ QueryDepth(ok)
                 /\ overloaded_returned' =
                      (get_queue_depth_result(ok) > max_queue_depth)
  /\ bp_called' = "is_overloaded"
  /\ UNCHANGED <<max_queue_depth, depth_returned>>
  /\ UNCHANGED nonBpVars

\* ------------------------------------------------------- RetryWithBackoff
RECURSIVE Pow(_, _)
Pow(b, n) == IF n = 0 THEN 1 ELSE b * Pow(b, n - 1)

\* min(base_delay * exponential_base ** attempt, max_delay)
retry_delay(n) ==
  Min2(retry_base_delay * Pow(exponential_base, n), retry_max_delay)

\* variant: a sleep follows the last attempt too
SleepDue_AfterLast(n) == n <= max_retries

\* `if attempt < self.max_retries`
SleepDue(n) == n < max_retries

\* the for statement takes the next value of range(max_retries + 1), or the
\* loop ends and `raise last_exception` runs
NextAttempt(err) ==
  IF attempt + 1 < max_retries + 1
  THEN /\ attempt' = attempt + 1
       /\ retry_pc' = "call"
       /\ UNCHANGED retry_raised
  ELSE /\ retry_pc' = "raised"
       /\ retry_raised' = err
       /\ UNCHANGED attempt

\* execute() is called: the loop starts at attempt 0
RetryExecute ==
  /\ retry_pc \in {"idle", "returned", "raised"}
  /\ retry_pc' = "call"
  /\ attempt' = 0
  /\ last_exception' = -1
  /\ calls' = <<>>
  /\ sleeps' = <<>>
  /\ events' = <<>>
  /\ retry_result' = 0
  /\ retry_raised' = -1
  /\ UNCHANGED <<max_retries, retry_base_delay, retry_max_delay,
                 exponential_base>>
  /\ UNCHANGED nonRetryVars

\* `return func(*args, **kwargs)`, func returning or raising
RetryCall ==
  /\ retry_pc = "call"
  /\ \E ok \in BOOLEAN :
       /\ calls' = Append(calls, ok)
       /\ events' = Append(events, "call")
       /\ IF ok
          THEN /\ retry_pc' = "returned"
               /\ retry_result' = Len(calls) + 1
               /\ UNCHANGED <<attempt, last_exception, retry_raised>>
          ELSE /\ last_exception' = attempt
               /\ UNCHANGED retry_result
               /\ IF SleepDue(attempt)
                  THEN /\ retry_pc' = "sleep"
                       /\ UNCHANGED <<attempt, retry_raised>>
                  ELSE NextAttempt(attempt)
  /\ UNCHANGED <<max_retries, retry_base_delay, retry_max_delay,
                 exponential_base, sleeps>>
  /\ UNCHANGED nonRetryVars

\* `time.sleep(delay)` and on to the next round of the loop
RetrySleep ==
  /\ retry_pc = "sleep"
  /\ sleeps' = Append(sleeps, retry_delay(attempt))
  /\ events' = Append(events, "sleep")
  /\ NextAttempt(last_exception)
  /\ UNCHANGED <<max_retries, retry_base_delay, retry_max_delay,
                 exponential_base, last_exception, calls, retry_result>>
  /\ UNCHANGED nonRetryVars

\* ------------------------------------------------- functions called alone
\* infra/quality.py. A comment is given by what score_comment_quality looks
\* at: the length of its stripped text, whether SPAM_REGEX matches it,
\* whether under half of its characters are alphanumeric or spaces, its
\* likes and how many political terms occur in it.
Comment(len, spam, special, likes, hits) ==
  [len |-> len, spam |-> spam, special |-> special, likes |-> likes,
   relevance_hits |-> hits]
Comments ==
  [len : {5, 9, 10, 29, 30, 50, 51, 100, 101, 200, 201},
   spam : BOOLEAN, special : BOOLEAN,
   likes : {0, 9, 10, 99, 100, 999, 1000},
   relevance_hits : 0..3]

\* the factors, in tenths
LengthFactor(len) ==
  IF len > 200 THEN 13 ELSE IF len > 100 THEN 12 ELSE IF len > 50 THEN 11
  ELSE IF len < 30 THEN 7 ELSE 10
LikesFactor(likes) ==
  IF likes >= 1000 THEN 15 ELSE IF likes >= 100 THEN 13
  ELSE IF likes >= 10 THEN 12 ELSE 10
RelevanceFactor(hits) ==
  IF hits >= 3 THEN 14 ELSE IF hits >= 2 THEN 13
  ELSE IF hits >= 1 THEN 11 ELSE 10

\* variant: the spam test is missing
score_comment_quality_NoSpam(comment) ==
  IF comment.len < 10 THEN [score |-> 0, reason |-> "Too short"]
  ELSE IF comment.special
       THEN [score |-> 0, reason |-> "Too many special characters"]
  ELSE [score |-> Min2(LengthFactor(comment.len) * LikesFactor(comment.likes)
                       * RelevanceFactor(comment.relevance_hits), 1500),
        reason |-> "OK"]

score_comment_quality(comment) ==
  IF comment.len < 10 THEN [score |-> 0, reason |-> "Too short"]
  ELSE IF comment.spam
       THEN [score |-> 0, reason |-> "Spam pattern detected"]
  ELSE IF comment.special
       THEN [score |-> 0, reason |-> "Too many special characters"]
  ELSE [score |-> Min2(LengthFactor(comment.len) * LikesFactor(comment.likes)
                       * RelevanceFactor(comment.relevance_hits), 1500),
        reason |-> "OK"]

RECURSIVE filter_quality_comments(_)
filter_quality_comments(comments) ==
  IF comments = <<>>
  THEN [quality_comments |-> <<>>, rejected_count |-> 0, total_score |-> 0]
  ELSE LET front == SubSeq(comments, 1, Len(comments) - 1)
           comment == comments[Len(comments)]
           sofar == filter_quality_comments(front)
           sc == score_comment_quality(comment).score
       IN  IF sc >= MIN_COMMENT_QUALITY
           THEN [quality_comments |->
                   Append(sofar.quality_comments,
                          [comment |-> comment, quality_score |-> sc]),
                 rejected_count |-> sofar.rejected_count,
                 total_score |-> sofar.total_score + sc]
           ELSE [sofar EXCEPT !.rejected_count = @ + 1]

\* the comments the lists are made of: short but well liked, spam but long,
\* liked and on topic, mostly symbols, the plainest acceptable one, and one
\* that reaches the ceiling of 1.5
ShortLiked == Comment(5, FALSE, FALSE, 1000, 1)
SpamLiked == Comment(201, TRUE, FALSE, 1000, 3)
Symbols == Comment(30, FALSE, TRUE, 0, 0)
Plain == Comment(10, FALSE, FALSE, 0, 0)
Rich == Comment(201, FALSE, FALSE, 1000, 3)
ListComments == {ShortLiked, SpamLiked, Symbols, Plain, Rich}
CommentLists == UNION {[1..n -> ListComments] : n \in 0..MaxList}

QualityInputs ==
  {[fn |-> "score_comment_quality", comment |-> c, comments |-> <<>>] :
     c \in Comments}
  \cup {[fn |-> "filter_quality_comments", comment |-> Plain,
         comments |-> l] : l \in CommentLists}

ScoreCommentQuality ==
  /\ ~fn_done
  /\ fn_in \in QualityInputs
  /\ fn_in.fn = "score_comment_quality"
  /\ fn_out' = score_comment_quality(fn_in.comment)
  /\ fn_done' = TRUE
  /\ UNCHANGED <<fn_in, appended>>
  /\ UNCHANGED <<pipeVars, nonFnVars>>

\* the kept comments, rejected_count and round(avg_quality, 3)
FilterQualityComments ==
  /\ ~fn_done
  /\ fn_in \in QualityInputs
  /\ fn_in.fn = "filter_quality_comments"
  /\ LET r == filter_quality_comments(fn_in.comments)
     IN  fn_out' = [quality_comments |-> r.quality_comments,
                    rejected_count |-> r.rejected_count,
                    avg_quality |->
                      IF r.quality_comments = <<>> THEN 0
                      ELSE RoundHalfEven(r.total_score,
                                         Len(r.quality_comments))]
  /\ fn_done' = TRUE
  /\ UNCHANGED <<fn_in, appended>>
  /\ UNCHANGED <<pipeVars, nonFnVars>>

\* upsert_constituency_prediction called again and again for one row, read
\* and write in one step; content ids are numbered by first appearance, and
\* a call brings a new id, the first or second id ever seen, or the newest
LineageKey == <<"Harbour", "DMK_Front">>
NewestId == IF appended = <<>> THEN 0 ELSE
              CHOOSE n \in {appended[i] : i \in 1..Len(appended)} :
                \A i \in 1..Len(appended) : appended[i] <= n
UpsertPrediction ==
  /\ Len(appended) < MaxAdds
  /\ \E id \in ({1, 2, NewestId, NewestId + 1} \ {0}) \cap 1..(NewestId + 1) :
       LET old == constituency_predictions[LineageKey]
       IN  /\ constituency_predictions' =
                [constituency_predictions EXCEPT ![LineageKey] =
                   IF old = NoRow THEN InsertedRow(0, id)
                   ELSE UpdatedRow(old, 0, FALSE, id)]
           /\ appended' = IF old # NoRow /\ InSeq(id, old.source_ids)
                          THEN appended ELSE Append(appended, id)
  /\ UNCHANGED <<fn_in, fn_out, fn_done>>
  /\ UNCHANGED <<cfgVars, storage, job_queue, processed_content,
                 dead_letter_queue, pipeline_metrics, faults, prodVars, pc,
                 localVars, failed_calls>>
  /\ UNCHANGED nonFnVars

\* streams of texts, each text given as the label the classifier puts on it
Labels == {"positive", "negative", "neutral"}
Streams == UNION {[1..n -> Labels] : n \in 0..MaxItems}
StreamPairs == [authoritative_content : Streams, user_comments : Streams]

\* compute_weighted_sentiment and then calculate_sentiment_score, as
\* process_job calls them
WeightedScore ==
  /\ ~fn_done
  /\ fn_in \in StreamPairs
  /\ LET sentiment_results == compute_weighted_sentiment(
             analyze_sentiment(fn_in.authoritative_content, TRUE),
             analyze_sentiment(fn_in.user_comments, TRUE))
     IN  fn_out' = [sentiment_results |-> sentiment_results,
                    sentiment_score |->
                      calculate_sentiment_score(sentiment_results)]
  /\ fn_done' = TRUE
  /\ UNCHANGED <<fn_in, appended>>
  /\ UNCHANGED <<pipeVars, nonFnVars>>

\* what detect_location looks at in a payload
DistrictSet == {Districts[i] : i \in 1..Len(Districts)}
LocationInputs ==
  [location_override : {None} \cup DistrictSet,
   meta_hits : SUBSET DistrictSet,
   transcript_hits : SUBSET DistrictSet,
   comment_hits : UNION {[1..n -> SUBSET DistrictSet] : n \in 0..MaxComments}]

DetectLocation ==
  /\ ~fn_done
  /\ fn_in \in LocationInputs
  /\ fn_out' = detect_location(fn_in)
  /\ fn_done' = TRUE
  /\ UNCHANGED <<fn_in, appended>>
  /\ UNCHANGED <<pipeVars, nonFnVars>>

\* apply_influence_cap on the scores and deltas of the repository's test and
\* on deltas at, next to and beyond the cap
CapInputs ==
  [current_score : {-10000, -5000, 0, 5000, 10000},
   new_delta : {-2000, -1000, -501, -500, -499, -100, 0, 100, 200, 499, 500,
                501, 1000, 2000}]

ApplyInfluenceCap ==
  /\ ~fn_done
  /\ fn_in \in CapInputs
  /\ fn_out' = apply_influence_cap(fn_in.current_score, fn_in.new_delta)
  /\ fn_done' = TRUE
  /\ UNCHANGED <<fn_in, appended>>
  /\ UNCHANGED <<pipeVars, nonFnVars>>

\* ---------------------------------------------------------- specifications
ConsumerStep(c) ==
  \/ Poll(c)
  \/ LoopAgain(c)
  \/ UpdateJobStatus(c)
  \/ GetJob(c)
  \/ Download(c)
  \/ AddToDlq(c)
  \/ DedupCheck(c)
  \/ Classify(c)
  \/ UpsertRead(c)
  \/ UpsertWrite(c)
  \/ MarkContentProcessed(c)
  \/ LogMetric(c)

Next ==
  \/ Upload
  \/ InsertJob
  \/ \E c \in Consumers : ConsumerStep(c)

\* two Consumers and a Producer
Spec == Init /\ [][Next]_vars

\* the single Consumer of poll_and_process and a Producer
SpecOne == InitOne /\ [][Next]_vars

NextCB ==
  \/ CanExecute
  \/ RecordSuccess
  \/ RecordFailure
  \/ Reset
  \/ Tick

\* one CircuitBreaker, called in any order, constructed with any arguments
InitBreaker == InitPipe({}, 0, {TRUE}) /\ InitCB(1..MaxThreshold, 0..MaxTimeout)
               /\ InitIdleUtil
SpecCB == InitBreaker /\ [][NextCB]_vars

\* one Consumer next to the process-wide breaker of get_circuit_breaker, to
\* which another caller in the process reports failures and puts the question
InitGuard == InitPipe({"c1"}, 1, {TRUE}) /\ InitCB({1}, {MaxTimeout})
             /\ InitIdleUtil
NextGuard == Next \/ RecordFailure \/ CanExecute
SpecGuard == InitGuard /\ [][NextGuard]_vars

\* one AdaptiveRateLimiter, called in any order
NextRL == HandleResponse \/ RateLimiterReset
InitLimiter == /\ InitPipe({}, 0, {TRUE}) /\ InitCB({1}, {0}) /\ InitBP({500})
               /\ InitRL({Seconds(1), Seconds(2)}, {Seconds(2), Seconds(4)})
               /\ InitIdleRT /\ InitIdleFn
SpecRL == InitLimiter /\ [][NextRL]_vars

\* one BackpressureMonitor over the job_queue a Producer fills
NextBP == Upload \/ InsertJob \/ GetQueueDepth \/ IsOverloaded \/ Tick
InitMonitor == /\ InitPipe({}, 0, {TRUE}) /\ InitCB({1}, {0})
               /\ InitRL({Seconds(2)}, {Seconds(60)}) /\ InitBP(0..MaxDepth)
               /\ InitIdleRT /\ InitIdleFn
SpecBP == InitMonitor /\ [][NextBP]_vars

\* a Producer alone, calling save_raw_json again and again
NextProd == Upload \/ InsertJob
InitProd == InitPipe({}, MaxProdFaults, {TRUE}) /\ InitCB({1}, {0})
            /\ InitIdleUtil
SpecProd == InitProd /\ [][NextProd]_vars

\* one prediction row under a long run of upserts
NextLineage == UpsertPrediction
InitLineage == InitPipe({}, 0, {TRUE}) /\ InitCB({1}, {0}) /\ InitIdleUtil
SpecLineage == InitLineage /\ [][NextLineage]_vars

\* the utilities idle, no Consumer, and one function called on its own
InitCall(inputs) ==
  /\ InitPipe({}, 0, {TRUE}) /\ InitCB({1}, {0})
  /\ InitRL({Seconds(2)}, {Seconds(60)}) /\ InitBP({500}) /\ InitIdleRT
  /\ InitFn(inputs)

\* the scoring of one job's two streams
SpecScore == InitCall(StreamPairs) /\ [][WeightedScore]_vars

\* detect_location on one payload
SpecLoc == InitCall(LocationInputs) /\ [][DetectLocation]_vars

\* one Consumer working off a queue of MaxJobs saved payloads of several
\* alliances
NextPersist == \E c \in Consumers : ConsumerStep(c)
InitPersist ==
  /\ InitQueued({"c1"}, MaxFaults, {TRUE}, [1..MaxJobs -> PersistPayloads])
  /\ InitCB({MaxThreshold}, {MaxTimeout}) /\ InitIdleUtil
SpecPersist == InitPersist /\ [][NextPersist]_vars

\* one Consumer working off a queue of MaxJobs jobs, the blob of a job being
\* a saved payload or no JSON document
InitParse ==
  /\ InitQueued({"c1"}, MaxFaults, {TRUE}, [1..MaxJobs -> ParseBlobs])
  /\ InitCB({MaxThreshold}, {MaxTimeout}) /\ InitIdleUtil
SpecParse == InitParse /\ [][NextPersist]_vars

\* two Consumers working off a queue of saved jobs, no call failing
InitRace == /\ InitQueued(Consumers, 0, {TRUE}, RaceQueues)
            /\ InitCB({MaxThreshold}, {MaxTimeout}) /\ InitIdleUtil
SpecRace == InitRace /\ [][NextPersist]_vars

\* apply_influence_cap on one pair of arguments
SpecCap == InitCall(CapInputs) /\ [][ApplyInfluenceCap]_vars

\* score_comment_quality on one comment, filter_quality_comments on one list
NextQuality == ScoreCommentQuality \/ FilterQualityComments
SpecQuality == InitCall(QualityInputs) /\ [][NextQuality]_vars

\* one RetryWithBackoff, constructed with any arguments, around an operation
\* that returns or raises as it likes; a started execute() keeps running
NextRetry == RetryExecute \/ RetryCall \/ RetrySleep
InitRetry == /\ InitPipe({}, 0, {TRUE}) /\ InitCB({1}, {0})
             /\ InitRL({Seconds(2)}, {Seconds(60)}) /\ InitBP({500})
             /\ InitRT(0..MaxRetries, {1, 2}, {3, 30}, {2, 3}) /\ InitIdleFn
SpecRetry == /\ InitRetry /\ [][NextRetry]_vars
             /\ WF_vars(RetryCall) /\ WF_vars(RetrySleep)

\* ------------------------------------------------------------ properties
Terminal == {"DONE", "FAILED"}
InProcessJob(c) == pc[c] \notin {"poll", "returned"}
\* Consumer c takes a step of process_job / the call of that step did not raise
Step(c) == pc'[c] # pc[c]
Clean(c) == faults' = faults
Returned(c) == pc[c] = "returned"
StatusOf(j) == job_queue[j].status

\* C1: no job id is inside process_job in two Consumers at once.
C1_ExclusiveProcessing ==
  \A c1, c2 \in Consumers :
    (c1 # c2 /\ InProcessJob(c1) /\ InProcessJob(c2)) => job_id[c1] # job_id[c2]

\* C2: a job row appears at PENDING only, and once its status is DONE or
\* FAILED no step changes that status.
C2_TerminalAbsorbing ==
  [][\A j \in 1..Len(job_queue') :
       IF j <= Len(job_queue)
       THEN StatusOf(j) \in Terminal => job_queue'[j].status = StatusOf(j)
       ELSE job_queue'[j].status = "PENDING"]_vars

\* C3: no run of process_job returns while its job is left in PROCESSING,
\* whichever call failed during the run.
C3_NoRunLeavesProcessing ==
  \A c \in Consumers : Returned(c) => StatusOf(job_id[c]) # "PROCESSING"

\* C4: with one Consumer, every enqueued job is picked up and ends DONE or
\* FAILED; in finite form: whenever the Consumer is back in the poll loop and
\* finds no PENDING row, every job row is DONE or FAILED.
C4_QueueDrains ==
  (active = {"c1"} /\ pc["c1"] = "poll" /\ Pending = {})
    => \A j \in 1..Len(job_queue) : StatusOf(j) \in Terminal

\* the steps every run of process_job starts with touch neither the
\* predictions nor the ledger
HeadStepsKeepTables(c) ==
  (pc[c] \in {"st_processing", "get_job", "download"} /\ Step(c))
    => UNCHANGED <<constituency_predictions, processed_content>>

Raises(c) == Step(c) /\ exit_taken'[c] = "exception" /\ exit_taken[c] # "exception"

C7_DownloadFailure ==
  [][\A c \in Consumers :
       /\ HeadStepsKeepTables(c)
       /\ (pc[c] = "download" /\ Step(c) /\ ~Clean(c))
            => (pc'[c] = "dlq_network" /\ UNCHANGED storeVars)
       /\ (pc[c] = "dlq_network" /\ Step(c))
            => /\ pc'[c] = "st_failed_dl"
               /\ UNCHANGED <<job_queue, constituency_predictions,
                              processed_content>>
               /\ Clean(c) =>
                    dead_letter_queue' =
                      Append(dead_letter_queue,
                             [original_job_id |-> job_id[c],
                              file_path |-> file_path[c],
                              error_type |-> "NETWORK",
                              payload |-> NoData])
       /\ (pc[c] = "st_failed_dl" /\ Step(c))
            => /\ pc'[c] = "returned"
               /\ UNCHANGED <<constituency_predictions, processed_content,
                              dead_letter_queue>>
               /\ Clean(c) => job_queue'[job_id[c]].status = "FAILED"]_vars

C7_Witness ==
  \E c \in Consumers :
    /\ Returned(c) /\ exit_taken[c] = "download_failed"
    /\ failed_calls[c] = {"download"}
    /\ StatusOf(job_id[c]) = "FAILED"
    /\ \E i \in 1..Len(dead_letter_queue) :
         /\ dead_letter_queue[i].original_job_id = job_id[c]
         /\ dead_letter_queue[i].error_type = "NETWORK"

BestEffort == {"mark_content_processed", "log_metric"}

\* C8: whether the ledger insert or a metrics insert succeeds or raises, the
\* run goes on the same way: the step changes no job row, prediction row or
\* dead-letter row, the job of a scored run in which nothing else failed is
\* DONE when process_job returns, and the poll loop goes on.
C8_BestEffortInserts ==
  [][\A c \in Consumers :
       /\ (pc[c] = "mark" /\ Step(c))
            => /\ pc'[c] = "st_done"
               /\ UNCHANGED <<job_queue, constituency_predictions,
                              dead_letter_queue>>
       /\ (pc[c] \in MetricPcs /\ Step(c))
            => /\ pc'[c] = IF pc[c] = "metric_latency" THEN "metric_score"
                           ELSE "returned"
               /\ UNCHANGED <<job_queue, constituency_predictions,
                              dead_letter_queue, processed_content>>
       /\ (pc[c] = "st_done" /\ Step(c))
            => /\ pc'[c] = "metric_latency"
               /\ UNCHANGED <<constituency_predictions, dead_letter_queue,
                              processed_content>>
       /\ (/\ pc'[c] = "returned" /\ Step(c) /\ exit_taken[c] = "scored"
           /\ failed_calls'[c] \subseteq BestEffort)
            => job_queue'[job_id[c]].status = "DONE"
       /\ (Returned(c) /\ Step(c)) => pc'[c] = "poll"]_vars

C8_Witness ==
  \E c \in Consumers :
    /\ Returned(c) /\ exit_taken[c] = "scored"
    /\ failed_calls[c] # {} /\ failed_calls[c] \subseteq BestEffort
    /\ StatusOf(job_id[c]) = "DONE"
    /\ \A i \in 1..Len(dead_letter_queue) :
         dead_letter_queue[i].original_job_id # job_id[c]

\* the places of process_job that call the store or the classifier
ExternalCallPcs ==
  StatusPcs \cup MetricPcs \cup
  {"get_job", "download", "dlq_network", "dlq_exc", "dedup", "classify",
   "upsert_read", "upsert_write", "mark"}

\* what can_execute() would answer now is False
BreakerBlocks == state = "OPEN" /\ ~TimeoutElapsed

\* C9: no external call of process_job is attempted while can_execute()
\* answers false.
C9_CallsGuarded ==
  [][\A c \in Consumers :
       (pc[c] \in ExternalCallPcs /\ (Step(c) \/ todo'[c] # todo[c]))
         => ~BreakerBlocks]_vars

\* C10: counted from CLOSED with failure counter 0, fewer than
\* failure_threshold record_failure() calls in a row leave the breaker
\* CLOSED, failure_threshold or more leave it OPEN, and every can_execute()
\* made in OPEN while no more than reset_timeout has elapsed since the last
\* recorded failure returns false and leaves it OPEN.
C10_OpensAtThreshold ==
  /\ [](streak >= 0 =>
          /\ streak < failure_threshold => state = "CLOSED"
          /\ streak >= failure_threshold => state = "OPEN")
  /\ [][(/\ result' # "none"
         /\ state = "OPEN"
         /\ now - last_failure_time <= reset_timeout)
          => (result' = "false" /\ state' = "OPEN")]_vars

C10_Witness ==
  /\ streak = failure_threshold
  /\ failure_threshold > 1
  /\ state = "OPEN"
  /\ result = "false"
  /\ now - last_failure_time = reset_timeout
  /\ reset_timeout > 0

\* C11: a can_execute() made in OPEN more than reset_timeout after the last
\* recorded failure returns true, moves the breaker to HALF_OPEN and sets
\* the probe-success counter to 0; one made earlier returns false and
\* changes no breaker field.
C11_ProbeAfterTimeout ==
  [][(called' = "can_execute" /\ state = "OPEN")
       => IF now - last_failure_time > reset_timeout
          THEN /\ result' = "true"
               /\ state' = "HALF_OPEN"
               /\ success_count_in_half_open' = 0
          ELSE /\ result' = "false"
               /\ UNCHANGED <<failure_threshold, reset_timeout, failures,
                              last_failure_time, state,
                              success_count_in_half_open>>]_vars

C11_Witness ==
  /\ state = "HALF_OPEN"
  /\ called = "can_execute"
  /\ result = "true"
  /\ success_count_in_half_open = 0
  /\ reset_timeout > 0
  /\ now - last_failure_time = reset_timeout + 1

\* C12: a record_failure() made in HALF_OPEN leaves the breaker OPEN with
\* the failure time taken anew, whatever the probe-success counter, and a
\* can_execute() made in OPEN no more than reset_timeout after the last
\* failure time returns false.
C12_FailedProbeReopens ==
  /\ [][(called' = "record_failure" /\ state = "HALF_OPEN")
          => (state' = "OPEN" /\ last_failure_time' = now)]_vars
  /\ [][(/\ called' = "can_execute" /\ state = "OPEN"
         /\ now - last_failure_time <= reset_timeout)
          => (result' = "false" /\ state' = "OPEN")]_vars

C12_Witness ==
  /\ state = "OPEN"
  /\ called = "can_execute"
  /\ result = "false"
  /\ success_count_in_half_open = 1
  /\ streak = -1
  /\ last_failure_time > 1

\* C13: a record_success() in HALF_OPEN counts one probe success; the one
\* that brings the count to half_open_success_threshold leaves the breaker
\* CLOSED with failure counter 0, an earlier one leaves it HALF_OPEN with the
\* failure counter unchanged; the count starts below the threshold.
C13_ProbesClose ==
  /\ [](state = "HALF_OPEN"
          => success_count_in_half_open < half_open_success_threshold)
  /\ [][(called' = "record_success" /\ state = "HALF_OPEN")
          => /\ success_count_in_half_open' = success_count_in_half_open + 1
             /\ IF success_count_in_half_open + 1 >= half_open_success_threshold
                THEN state' = "CLOSED" /\ failures' = 0
                ELSE state' = "HALF_OPEN" /\ failures' = failures]_vars

C13_Witness ==
  /\ state = "CLOSED"
  /\ called = "record_success"
  /\ success_count_in_half_open = half_open_success_threshold
  /\ failures = 0
  /\ last_failure_time # NoTime

\* a handle_response(code) call is made in this step
Handles(codes) == responses' = responses + 1 /\ status_code' \in codes
Is2xx == {c \in StatusCodes : 200 <= c /\ c < 300}

\* C14: handle_response(429) sets the delay to min(2*d, max_delay), d the
\* delay before the call, and the consecutive-success counter to 0.
C14_Doubles ==
  [][Handles({429})
       => /\ current_delay' = IF 2 * current_delay < max_delay
                              THEN 2 * current_delay ELSE max_delay
          /\ consecutive_successes' = 0]_vars

C14_Witness ==
  /\ status_code = 429
  /\ current_delay = 4 * base_delay
  /\ current_delay = max_delay
  /\ consecutive_successes = 0
  /\ ok_run = 0
  /\ responses > 2

\* C15: counted from the last 429, 503, reset or construction, every 2xx
\* response whose number is no multiple of the success threshold leaves the
\* delay as it is, and every one whose number is a multiple sets the delay
\* to max(base_delay, 0.9*d), d the delay before it; the counter holds that
\* number modulo the threshold, and 429 and 503 set it to 0.
C15_DecaysAtThreshold ==
  /\ [](consecutive_successes = ok_run % success_threshold_for_decrease)
  /\ [][Handles(Is2xx)
          => current_delay' =
               IF (ok_run + 1) % success_threshold_for_decrease # 0
               THEN current_delay
               ELSE IF (9 * current_delay) \div 10 > base_delay
                    THEN (9 * current_delay) \div 10 ELSE base_delay]_vars
  /\ [][Handles({429, 503}) => consecutive_successes' = 0]_vars

C15_Witness ==
  /\ status_code \in Is2xx
  /\ ok_run = success_threshold_for_decrease
  /\ consecutive_successes = 0
  /\ current_delay > base_delay
  /\ 10 * current_delay = 9 * 2 * base_delay

\* a BackpressureMonitor method is called in this step
BpCalls(method) == bp_called' = method /\ UNCHANGED nonBpVars
LastGoodDepth == IF queried_depth = -1 THEN 0 ELSE queried_depth

\* C16: get_queue_depth() returns a depth whether its query succeeds or
\* fails: the PENDING count when it succeeds, and when it fails the depth
\* the last successful query saw (0 if none succeeded), the cached depth
\* staying as it was; the cached depth is always that last seen depth.
C16_DepthFailSoft ==
  /\ [](last_depth = LastGoodDepth)
  /\ [][BpCalls("get_queue_depth")
          => /\ bp_queried'
             /\ IF bp_query_ok'
                THEN /\ depth_returned' = Cardinality(Pending)
                     /\ last_depth' = Cardinality(Pending)
                ELSE /\ depth_returned' = LastGoodDepth
                     /\ last_depth' = last_depth]_vars

C16_Witness ==
  /\ bp_called = "get_queue_depth"
  /\ bp_queried /\ ~bp_query_ok
  /\ depth_returned = 1
  /\ last_depth = 1
  /\ Cardinality(Pending) = 2

\* C17: is_overloaded(force_check) with force_check false, made less than
\* the cache TTL after the last successful depth query, returns (cached
\* depth > max_queue_depth) and does not query the store; in every other
\* case it queries and returns (depth > max_queue_depth), depth being what
\* get_queue_depth returns.
C17_CachedVerdict ==
  [][BpCalls("is_overloaded")
       => IF /\ ~force_check'
             /\ last_check_time # NoTime
             /\ SecondsSince(last_check_time) < cache_ttl
          THEN /\ ~bp_queried'
               /\ overloaded_returned' = (last_depth > max_queue_depth)
               /\ UNCHANGED <<last_depth, last_check_time>>
          ELSE /\ bp_queried'
               /\ overloaded_returned' =
                    ((IF bp_query_ok' THEN Cardinality(Pending)
                      ELSE last_depth) > max_queue_depth)
               /\ bp_query_ok' =>
                    (last_depth' = Cardinality(Pending)
                     /\ last_check_time' = now)]_vars

C17_Witness ==
  /\ bp_called = "is_overloaded"
  /\ ~force_check /\ ~bp_queried
  /\ last_check_time # NoTime /\ now > last_check_time
  /\ overloaded_returned = FALSE
  /\ last_depth <= max_queue_depth
  /\ Cardinality(Pending) > max_queue_depth

RetryDone == retry_pc \in {"returned", "raised"}

\* C18: RetryWithBackoff.execute terminates; it calls the operation at most
\* max_retries + 1 times and never again after a call that returned, whose
\* value it returns; its calls and sleeps alternate, a call first and a
\* call last; and it raises only after max_retries + 1 failed calls, the
\* error being that of the last call.
C18_RetryTerminates ==
  /\ [](Len(calls) <= max_retries + 1)
  /\ [](\A i \in 1..Len(calls) - 1 : ~calls[i])
  /\ [](retry_pc = "returned"
          => calls # <<>> /\ calls[Len(calls)]
             /\ retry_result = Len(calls))
  /\ [](\A i \in 1..Len(events) :
          events[i] = (IF i % 2 = 1 THEN "call" ELSE "sleep"))
  /\ [](RetryDone
          => Len(events) % 2 = 1 /\ Len(sleeps) = Len(calls) - 1)
  /\ [](retry_pc = "raised"
          => /\ Len(calls) = max_retries + 1
             /\ \A i \in 1..Len(calls) : ~calls[i]
             /\ retry_raised = Len(calls) - 1)
  /\ (retry_pc \in {"call", "sleep"} ~> RetryDone)

\* all max_retries + 1 attempts failed, with capped and uncapped sleeps
C18_Witness ==
  /\ retry_pc = "raised"
  /\ max_retries = 3
  /\ retry_raised = 3
  /\ Len(sleeps) = 3
  /\ sleeps[1] < retry_max_delay
  /\ sleeps[3] = retry_max_delay

\* a later attempt succeeds and ends the loop early
C18_WitnessReturned ==
  /\ retry_pc = "returned"
  /\ max_retries = 3
  /\ calls = <<FALSE, TRUE>>
  /\ sleeps = <<retry_base_delay>>

\* C19: what save_raw_json returns when the upload succeeded and the insert
\* failed is returned neither by a call that succeeded nor by a call whose
\* upload failed.
C19_PartialFailureDistinct ==
  returned.insert_failed \cap (returned.ok \cup returned.upload_failed) = {}

\* C20: a job_queue row is inserted only by save_raw_json past a successful
\* upload, at PENDING and with the path of the uploaded blob; a job id is
\* returned only for a row just inserted; so every row of job_queue
\* references a blob that is in storage.
C20_RowAfterBlob ==
  /\ [](\A j \in 1..Len(job_queue) :
          job_queue[j].file_path \in 1..Len(storage))
  /\ [](prod_pc = "insert" => prod_path \in 1..Len(storage))
  /\ [](returned.ok \subseteq 1..Len(job_queue))
  /\ [][Len(job_queue') # Len(job_queue)
          => /\ prod_pc = "insert"
             /\ job_queue' = Append(job_queue, [status |-> "PENDING",
                                                file_path |-> prod_path])
             /\ prod_result' = Len(job_queue')]_vars
  /\ [][prod_result' # prod_result /\ prod_result' # NoPath
          => /\ Len(job_queue') = Len(job_queue) + 1
             /\ prod_result' = Len(job_queue')]_vars

\* a job was queued after a call whose upload failed left no row
C20_Witness ==
  /\ returned.upload_failed # {}
  /\ Len(storage) = 1
  /\ Len(job_queue) = 1
  /\ job_queue[1].file_path = 1
  /\ prod_result = 1
  /\ returned.ok = {1}

\* the Consumer that is writing a prediction row, and what it writes with
Upserting(c, k) ==
  /\ pc[c] = "upsert_write"
  /\ k = <<Head(todo[c]), detect_alliance(data[c])>>
StateWideJob(c) == InSeq("State_Wide", detect_location(data[c]))

\* C21: a step that changes the sentiment_score of an existing prediction
\* row sets it to round(old*0.95 + current*0.05, 4) when the job's location
\* is State_Wide and to round(old*0.9 + current*0.1, 4) otherwise (scores in
\* units of 0.0001); a step that creates a row stores the job's score as it
\* is.
C21_MovingAverage ==
  [][\A k \in Keys :
       constituency_predictions'[k] # constituency_predictions[k]
         => \E c \in active :
              /\ Upserting(c, k)
              /\ LET old == constituency_predictions[k]
                     new == constituency_predictions'[k]
                 IN  IF old = NoRow
                     THEN new.sentiment_score = score[c]
                     ELSE new.sentiment_score =
                            IF StateWideJob(c)
                            THEN RoundHalfEven(95 * old.sentiment_score
                                               + 5 * score[c], 100)
                            ELSE RoundHalfEven(9 * old.sentiment_score
                                               + score[c], 10)]_vars

\* the row of Harbour, created at 0.7143 by the Chennai job, was moved by
\* the state-wide job of score -1.0
C21_Witness ==
  LET r == constituency_predictions[<<"Harbour", "DMK_Front">>]
  IN  /\ r # NoRow
      /\ r.source_ids = <<"v1", "v2">>
      /\ r.sentiment_score = 6286

NoDuplicates(s) == \A i, j \in 1..Len(s) : s[i] = s[j] => i = j
Reverse(s) == [i \in 1..Len(s) |-> s[Len(s) + 1 - i]]
\* the (at most) 100 ids appended last, oldest first
RecentlyAppended ==
  IF Len(appended) <= 100 THEN appended
  ELSE SubSeq(appended, Len(appended) - 99, Len(appended))

\* C22: the source_ids of a prediction row holds each content id at most
\* once and at most 100 ids, and they are the ids added most recently, in
\* the order they were added: the oldest first, the most recent last.
C22_SourceIdsRecent ==
  LET r == constituency_predictions[LineageKey]
  IN  r # NoRow
        => /\ NoDuplicates(r.source_ids)
           /\ Len(r.source_ids) <= 100
           /\ r.source_ids = RecentlyAppended

\* C22 as claimed: the same, the ids ordered most-recent-first
C22_MostRecentFirst ==
  LET r == constituency_predictions[LineageKey]
  IN  r # NoRow
        => /\ NoDuplicates(r.source_ids)
           /\ Len(r.source_ids) <= 100
           /\ r.source_ids = Reverse(RecentlyAppended)

\* the cap has dropped ids 1 and 2, and id 1, seen again, is the newest
C22_Witness ==
  LET r == constituency_predictions[LineageKey]
  IN  /\ r # NoRow
      /\ Len(appended) = 102 /\ appended[102] = 1
      /\ Len(r.source_ids) = 100
      /\ r.source_ids[1] = 3
      /\ r.source_ids[100] = 1
      /\ r.source_count = 102

\* how many items of stream s carry label x
Count(s, x) == Cardinality({i \in 1..Len(s) : s[i] = x})

\* C23: weighted_X = user_count[X]*1.0 + authoritative_count[X]*3.0 for
\* each label X, total_weighted is their sum, and sentiment_score is
\* (weighted_positive - weighted_negative) / total_weighted rounded to 4
\* places (here in units of 0.0001: the nearest integer, a tie going to the
\* even one), 0 when total_weighted is 0; two positive authoritative items
\* and one negative comment give 0.7143.
C23_WeightedScore ==
  fn_done =>
    LET a == fn_in.authoritative_content
        u == fn_in.user_comments
        r == fn_out.sentiment_results
        sc == fn_out.sentiment_score
        exact == 10000 * (r.weighted_positive - r.weighted_negative)
    IN  /\ r.weighted_positive = Count(u, "positive") + 3 * Count(a, "positive")
        /\ r.weighted_negative = Count(u, "negative") + 3 * Count(a, "negative")
        /\ r.weighted_neutral = Count(u, "neutral") + 3 * Count(a, "neutral")
        /\ r.total_weighted = r.weighted_positive + r.weighted_negative
                              + r.weighted_neutral
        /\ r.total_weighted = 0 => sc = 0
        /\ r.total_weighted # 0 =>
             /\ 2 * Abs(sc * r.total_weighted - exact) <= r.total_weighted
             /\ 2 * Abs(sc * r.total_weighted - exact) = r.total_weighted
                  => sc % 2 = 0
        /\ (a = <<"positive", "positive">> /\ u = <<"negative">>)
             => sc = 7143

C23_Witness ==
  /\ fn_done
  /\ fn_in.authoritative_content = <<"positive", "positive">>
  /\ fn_in.user_comments = <<"negative">>
  /\ fn_out.sentiment_results.weighted_positive = 6
  /\ fn_out.sentiment_results.weighted_negative = 1
  /\ fn_out.sentiment_score = 7143

Elems(s) == {s[i] : i \in 1..Len(s)}
\* the districts that 3 or more comments of the payload name
NamedByThree(hits) ==
  {d \in DistrictSet : \E i, j, k \in 1..Len(hits) :
     /\ i < j /\ j < k
     /\ d \in hits[i] /\ d \in hits[j] /\ d \in hits[k]}

\* C24: detect_location returns the override alone when there is one; else
\* the districts of the metadata when there are any; else those of the
\* transcript; else the districts named in at least 3 comments; else
\* ["State_Wide"]. It returns no district twice and never an empty list.
C24_LocationCascade ==
  fn_done =>
    LET d == fn_in
        crowd == NamedByThree(d.comment_hits)
    IN  /\ fn_out # <<>>
        /\ Cardinality(Elems(fn_out)) = Len(fn_out)
        /\ Elems(fn_out) =
             IF d.location_override # None THEN {d.location_override}
             ELSE IF d.meta_hits # {} THEN d.meta_hits
             ELSE IF d.transcript_hits # {} THEN d.transcript_hits
             ELSE IF crowd # {} THEN crowd
             ELSE {"State_Wide"}

\* the override wins over a conflicting metadata keyword
C24_Witness ==
  /\ fn_done
  /\ fn_in.location_override = "Chennai"
  /\ fn_in.meta_hits = {"Salem"}
  /\ fn_out = <<"Chennai">>

\* two comments naming Salem are below the threshold
C24_WitnessTwo ==
  /\ fn_done
  /\ fn_in.location_override = None
  /\ fn_in.meta_hits = {} /\ fn_in.transcript_hits = {}
  /\ fn_in.comment_hits = <<{"Salem"}, {}, {"Salem"}>>
  /\ fn_out = <<"State_Wide">>

\* three are enough
C24_WitnessThree ==
  /\ fn_done
  /\ fn_in.location_override = None
  /\ fn_in.meta_hits = {} /\ fn_in.transcript_hits = {}
  /\ fn_in.comment_hits = <<{"Salem"}, {"Salem", "Chennai"}, {"Salem"}>>
  /\ fn_out = <<"Salem">>

\* the constituencies of the districts in the list locations
Under(locations) ==
  {cn \in Constituencies :
     \E d \in DistrictSet \cap Elems(locations) : cn \in Elems(GAZETTEER[d])}
\* the rows the persist step of the job Consumer c runs is to change
PersistRows(c) ==
  LET A == detect_alliance(data[c])
      L == detect_location(data[c])
  IN  IF A = "Unknown" THEN {}
      ELSE IF "State_Wide" \in Elems(L) THEN Constituencies \X {A}
      ELSE Under(L) \X {A}
PersistFailures == {"prediction_read", "prediction_write"}

\* C25: a step that changes a constituency_predictions row is a step of the
\* persist step of a job, and the row is one of: no row when the job's
\* alliance A is Unknown, the rows (c, A) of all constituencies when its
\* location is State_Wide, the rows (c, A) of the constituencies under its
\* districts otherwise; and when the persist step ends without a failed
\* store call each of these rows exists and lists the job's content id.
C25_PersistFrame ==
  /\ [][\A k \in Keys :
          constituency_predictions'[k] # constituency_predictions[k]
            => \E c \in active :
                 /\ pc[c] = "upsert_write" /\ pc'[c] # pc[c]
                 /\ k \in PersistRows(c)]_vars
  /\ [](\A c \in active :
          (pc[c] = "mark" /\ failed_calls[c] \cap PersistFailures = {})
            => \A k \in PersistRows(c) :
                 /\ constituency_predictions[k] # NoRow
                 /\ InSeq(get_content_id(data[c]),
                          constituency_predictions[k].source_ids))

\* a local job of one alliance has run after a local job of the other: each
\* wrote its own row and no other
C25_Witness ==
  LET cp == constituency_predictions
  IN  /\ pc["c1"] = "mark"
      /\ data["c1"] = PayRival
      /\ cp[<<"Harbour", "DMK_Front">>] # NoRow
      /\ cp[<<"Harbour", "DMK_Front">>].source_ids = <<"v1">>
      /\ cp[<<"Salem_West", "ADMK_Front">>] # NoRow
      /\ cp[<<"Salem_West", "ADMK_Front">>].source_ids = <<"v5">>
      /\ cp[<<"Salem_West", "DMK_Front">>] = NoRow
      /\ cp[<<"Harbour", "ADMK_Front">>] = NoRow

\* a job of Unknown alliance reaches the end of the persist step
C25_WitnessUnknown ==
  /\ pc["c1"] = "mark"
  /\ data["c1"] = PayUnknown
  /\ \A k \in Keys : constituency_predictions[k] = NoRow

\* C26: no step changes the sentiment_score of an existing prediction row
\* by more than MAX_INFLUENCE_PER_SOURCE (0.05).
C26_InfluenceCapped ==
  [][\A k \in Keys :
       (constituency_predictions[k] # NoRow
        /\ constituency_predictions'[k] # NoRow)
         => Abs(constituency_predictions'[k].sentiment_score
                - constituency_predictions[k].sentiment_score)
              <= MAX_INFLUENCE_PER_SOURCE]_vars

\* C27: apply_influence_cap(current, delta) is current + delta when
\* |delta| <= MAX_INFLUENCE_PER_SOURCE, current + MAX_INFLUENCE_PER_SOURCE
\* when delta is larger, current - MAX_INFLUENCE_PER_SOURCE when delta is
\* smaller than -MAX_INFLUENCE_PER_SOURCE.
C27_CapClamps ==
  fn_done =>
    LET cur == fn_in.current_score
        delta == fn_in.new_delta
    IN  /\ Abs(delta) <= 500 => fn_out = cur + delta
        /\ delta > 500 => fn_out = cur + 500
        /\ delta < -500 => fn_out = cur - 500

\* the test's cases 'Large shift (capped)' and its mirror image
C27_Witness ==
  /\ fn_done
  /\ fn_in = [current_score |-> 5000, new_delta |-> 2000]
  /\ fn_out = 5500

C27_WitnessLower ==
  /\ fn_done
  /\ fn_in = [current_score |-> 0, new_delta |-> -1000]
  /\ fn_out = -500

\* too short (as a text of length 5 is) or matching a spam pattern
Garbage(c) == c.len < 10 \/ c.spam

\* C28: score_comment_quality returns 0 for a comment that is too short or
\* matches a spam pattern, whatever its length, likes and political terms;
\* filter_quality_comments keeps no such comment, the kept comments and
\* rejected_count add up to the number of comments given, and every kept
\* comment scores at least 0.4.
C28_QualityGate ==
  fn_done =>
    /\ fn_in.fn = "score_comment_quality"
         => (Garbage(fn_in.comment) => fn_out.score = 0)
    /\ fn_in.fn = "filter_quality_comments"
         => /\ Len(fn_out.quality_comments) + fn_out.rejected_count
                 = Len(fn_in.comments)
            /\ \A i \in 1..Len(fn_out.quality_comments) :
                 /\ fn_out.quality_comments[i].quality_score >= 400
                 /\ ~Garbage(fn_out.quality_comments[i].comment)

\* of a short liked comment, a comment at the ceiling and a liked spam
\* comment only the second is kept
C28_Witness ==
  /\ fn_done
  /\ fn_in.fn = "filter_quality_comments"
  /\ fn_in.comments = <<ShortLiked, Rich, SpamLiked>>
  /\ fn_out.rejected_count = 2
  /\ Len(fn_out.quality_comments) = 1
  /\ fn_out.quality_comments[1].quality_score = 1500

\* a long, well liked spam comment full of political terms scores 0
C28_WitnessSpam ==
  /\ fn_done
  /\ fn_in.fn = "score_comment_quality"
  /\ fn_in.comment = SpamLiked
  /\ fn_out.score = 0

\* C29: record_success() in CLOSED sets the failure counter to 0 and leaves
\* the breaker CLOSED; the breaker leaves CLOSED only in a record_failure()
\* that is at least the failure_threshold-th in a row, no record_success()
\* or reset() between them.
C29_SuccessRestartsCount ==
  /\ [][(called' = "record_success" /\ state = "CLOSED")
          => (failures' = 0 /\ state' = "CLOSED")]_vars
  /\ [][(state = "CLOSED" /\ state' # "CLOSED")
          => /\ called' = "record_failure"
             /\ state' = "OPEN"
             /\ streak >= 0
             /\ streak + 1 >= failure_threshold]_vars

\* a success has wiped a failure recorded at this very time, in CLOSED
C29_Witness ==
  /\ called = "record_success"
  /\ state = "CLOSED"
  /\ failures = 0
  /\ last_failure_time = now
  /\ failure_threshold = 2

\* C30: a run of process_job in which the classifier failed changes no
\* constituency_predictions row, and when it has returned the job is FAILED
\* and the dead_letter_queue holds a record of the job with error_type
\* ML_INFERENCE.
C30_ClassifierFailureToDlq ==
  /\ [][\A c \in active :
          ("classifier" \in failed_calls[c] /\ Step(c))
            => UNCHANGED constituency_predictions]_vars
  /\ [](\A c \in active :
          (Returned(c) /\ "classifier" \in failed_calls[c])
            => /\ StatusOf(job_id[c]) = "FAILED"
               /\ \E i \in 1..Len(dead_letter_queue) :
                    /\ dead_letter_queue[i].original_job_id = job_id[c]
                    /\ dead_letter_queue[i].error_type = "ML_INFERENCE")

\* the job Consumer c ran has a dead_letter_queue record of this error_type
DlqHas(c, error_type) ==
  \E i \in 1..Len(dead_letter_queue) :
    /\ dead_letter_queue[i].original_job_id = job_id[c]
    /\ dead_letter_queue[i].error_type = error_type

\* C31: when process_job has returned from a job whose blob was retrieved
\* and is no valid JSON, and no store call of the run failed, the job is
\* FAILED and the dead_letter_queue holds a record of the job with error_type
\* JSON_PARSE and none with error_type NETWORK.
C31_MalformedToJsonParse ==
  \A c \in active :
    (/\ Returned(c)
     /\ storage[job_queue[job_id[c]].file_path] = NotJson
     /\ failed_calls[c] = {"json_loads"})
      => /\ StatusOf(job_id[c]) = "FAILED"
         /\ DlqHas(c, "JSON_PARSE")
         /\ ~DlqHas(c, "NETWORK")

\* what a Consumer that read the row `seen` writes for content id cid
WrittenOver(seen, current_score, is_state_wide, cid) ==
  IF seen = NoRow
  THEN [present |-> TRUE, sentiment_score |-> current_score,
        source_ids |-> <<cid>>, source_count |-> 1]
  ELSE [present |-> TRUE,
        sentiment_score |->
          IF is_state_wide
          THEN RoundHalfEven(95 * seen.sentiment_score + 5 * current_score, 100)
          ELSE RoundHalfEven(9 * seen.sentiment_score + current_score, 10),
        source_ids |-> IF cid \in Elems(seen.source_ids) THEN seen.source_ids
                       ELSE Append(seen.source_ids, cid),
        source_count |-> IF cid \in Elems(seen.source_ids)
                         THEN seen.source_count
                         ELSE seen.source_count + 1]

\* C32: a Consumer writes a prediction row from the row it read earlier,
\* whatever another Consumer has written to that row in between: its update
\* replaces the row by one computed from what it read, and its insert fails
\* and changes nothing when the row exists by then.  So two Consumers that
\* read the same row for two different jobs leave a row that reflects one
\* job only (the state C32_Witness).
C32_LostUpdate ==
  [][\A c \in active :
       (pc[c] = "upsert_write" /\ Step(c))
         => LET k == <<Head(todo[c]), detect_alliance(data[c])>>
            IN  /\ \A k2 \in Keys \ {k} : constituency_predictions'[k2]
                                             = constituency_predictions[k2]
                /\ constituency_predictions'[k] =
                     IF row[c] = NoRow /\ constituency_predictions[k] # NoRow
                     THEN constituency_predictions[k]
                     ELSE WrittenOver(row[c], score[c], StateWideJob(c),
                                      get_content_id(data[c]))]_vars

\* jobs v7 and v2 both read the row of Harbour as job v1 left it, v2 wrote
\* first and v7 last: all three jobs are DONE and in the ledger, and the row
\* holds nothing of v2
C32_Witness ==
  LET r == constituency_predictions[<<"Harbour", "DMK_Front">>]
  IN  /\ \A c \in Consumers : Returned(c) /\ failed_calls[c] = {}
      /\ \A j \in 1..Len(job_queue) : StatusOf(j) = "DONE"
      /\ processed_content = {"v1", "v2", "v7"}
      /\ r # NoRow
      /\ r.source_ids = <<"v1", "v7">>
      /\ r.source_count = 2
      /\ r.sentiment_score = 5429

\* two jobs both found no row: one insert created it, the other failed
C32_WitnessInsert ==
  LET r == constituency_predictions[<<"Harbour", "DMK_Front">>]
  IN  /\ \E c \in Consumers :
           /\ pc[c] = "mark" /\ data[c] = PayFollow
           /\ failed_calls[c] = {"prediction_write"}
      /\ r # NoRow
      /\ r.source_ids = <<"v1">>
      /\ r.source_count = 1

PersistPcs == {"upsert_read", "upsert_write"}

\* C33: in a run of process_job that scores, prediction rows are written in
\* the persist step only, the persist step is followed by the ledger write,
\* which is made when no constituency is left to persist and alone adds a
\* ledger row, that of the job's content id, and the ledger write is
\* followed by the update to DONE, the only step of the run that makes its
\* job DONE. A run stopped between the persist step and the ledger write
\* leaves predictions updated and no ledger row (the state C33_Witness).
C33_PersistLedgerDone ==
  [][\A c \in active :
       /\ (constituency_predictions' # constituency_predictions /\ Step(c))
            => /\ pc[c] = "upsert_write"
               /\ todo[c] # <<>>
               /\ UNCHANGED <<processed_content, job_queue>>
       /\ (pc[c] \in PersistPcs /\ Step(c))
            => /\ pc'[c] \in PersistPcs \cup {"mark"}
               /\ pc'[c] = "mark" <=> todo'[c] = <<>>
               /\ UNCHANGED <<processed_content, job_queue>>
       /\ (processed_content' # processed_content /\ Step(c))
            => /\ pc[c] = "mark"
               /\ todo[c] = <<>>
               /\ processed_content' =
                    processed_content \cup {get_content_id(data[c])}
               /\ UNCHANGED <<constituency_predictions, job_queue>>
       /\ (pc[c] = "mark" /\ Step(c)) => pc'[c] = "st_done"
       /\ (/\ exit_taken[c] = "scored" /\ Step(c)
           /\ StatusOf(job_id[c]) # "DONE"
           /\ job_queue'[job_id[c]].status = "DONE")
            => /\ pc[c] = "st_done"
               /\ UNCHANGED <<constituency_predictions, processed_content>>]_vars

\* the persist step of the Chennai job has written its row, the ledger
\* write is next: the job is PROCESSING and its content id in no ledger row
C33_Witness ==
  LET r == constituency_predictions[<<"Harbour", "DMK_Front">>]
  IN  /\ pc["c1"] = "mark"
      /\ data["c1"] = PayLocal
      /\ failed_calls["c1"] = {}
      /\ ENABLE_DEDUPLICATION
      /\ r # NoRow /\ r.source_ids = <<"v1">>
      /\ "v1" \notin processed_content
      /\ StatusOf(job_id["c1"]) = "PROCESSING"

\* the same job later: the row, the ledger row and then DONE
C33_WitnessDone ==
  /\ pc["c1"] = "metric_latency"
  /\ failed_calls["c1"] = {}
  /\ exit_taken["c1"] = "scored"
  /\ "v1" \in processed_content
  /\ StatusOf(job_id["c1"]) = "DONE"
  /\ constituency_predictions[<<"Harbour", "DMK_Front">>] # NoRow

\* -1.0 .. 1.0 in units of 0.0001
ScoreRange == -10000..10000

\* C34: the sentiment_score of every constituency_predictions row lies in
\* [-1, 1], and so does the sentiment_score computed for every job.
C34_ScoresInRange ==
  /\ \A k \in Keys :
       constituency_predictions[k] # NoRow
         => constituency_predictions[k].sentiment_score \in ScoreRange
  /\ \A c \in Consumers : score[c] \in ScoreRange

\* a row created at -1.0 by a state-wide job was updated by another job of
\* score -1.0 and is at -1.0
C34_Witness ==
  LET r == constituency_predictions[<<"Harbour", "DMK_Front">>]
  IN  /\ storage = <<PayState, PayState>>
      /\ ~ENABLE_DEDUPLICATION
      /\ pc["c1"] = "mark" /\ job_id["c1"] = 2
      /\ failed_calls["c1"] = {}
      /\ score["c1"] = -10000
      /\ StatusOf(1) = "DONE"
      /\ r # NoRow
      /\ r.sentiment_score = -10000

\* C35: in every reachable state of a CircuitBreaker built with
\* failure_threshold >= 1, CLOSED implies failure counter < failure_threshold,
\* HALF_OPEN implies probe-success counter < half_open_success_threshold (2),
\* and OPEN implies that a last-failure time is recorded.
C35_BreakerStateInvariant ==
  failure_threshold >= 1 =>
    /\ state = "CLOSED" => failures < failure_threshold
    /\ state = "HALF_OPEN" => success_count_in_half_open < 2
    /\ state = "OPEN" => last_failure_time # NoTime

\* closed from HALF_OPEN by two probe successes, one failure short of the
\* threshold again, the time of that failure still recorded
C35_Witness ==
  /\ state = "CLOSED"
  /\ failure_threshold = 2
  /\ failures = 1
  /\ success_count_in_half_open = 2
  /\ called = "record_failure"
  /\ last_failure_time = now

\* OPEN with the failure counter wiped by a record_success(): the time stays
C35_WitnessOpen ==
  /\ state = "OPEN"
  /\ called = "record_success"
  /\ failures = 0
  /\ last_failure_time # NoTime

\* C36: a record_failure() made in OPEN takes the last-failure time anew
\* and leaves the breaker OPEN; a can_execute() made in OPEN no more than
\* reset_timeout after the last-failure time returns false; and while no
\* more than reset_timeout has passed since the last-failure time the
\* breaker leaves OPEN only by reset().  So failures recorded at intervals
\* shorter than reset_timeout keep can_execute() false.
C36_FailuresRestartTimeout ==
  /\ [][(called' = "record_failure" /\ state = "OPEN")
          => (state' = "OPEN" /\ last_failure_time' = now)]_vars
  /\ [][(/\ called' = "can_execute" /\ state = "OPEN"
         /\ now - last_failure_time <= reset_timeout)
          => result' = "false"]_vars
  /\ [][(/\ state = "OPEN" /\ called' # "reset"
         /\ now - last_failure_time <= reset_timeout)
          => state' = "OPEN"]_vars

\* opened by the failure at time 1 with reset_timeout 1, the breaker would
\* probe at time 3; the failure recorded in OPEN at time 2 makes the
\* can_execute() of time 3 return false
C36_Witness ==
  /\ failure_threshold = 1 /\ reset_timeout = 1
  /\ streak = 2 /\ failures = 2
  /\ last_failure_time = 2
  /\ now = 3
  /\ state = "OPEN"
  /\ called = "can_execute"
  /\ result = "false"

\* C37: for an AdaptiveRateLimiter built with base_delay <= max_delay,
\* base_delay <= current_delay <= max_delay after every sequence of
\* handle_response() and reset() calls, and a handle_response() with a
\* status code other than 429, 503 and 2xx changes neither the delay nor the
\* consecutive-success counter.
C37_DelayWithinBounds ==
  /\ [](base_delay <= max_delay
          => (base_delay <= current_delay /\ current_delay <= max_delay))
  /\ [][Handles(StatusCodes \ ({429, 503} \cup Is2xx))
          => UNCHANGED <<current_delay, consecutive_successes>>]_vars

\* two 429 took the delay to max_delay, three 2xx counted, and a 404 left
\* the delay and the count as they were
C37_Witness ==
  /\ status_code = 404
  /\ base_delay < max_delay
  /\ current_delay = max_delay
  /\ consecutive_successes = 3
  /\ responses = 6

\* five 2xx at base_delay: the delay stays at base_delay
C37_WitnessFloor ==
  /\ status_code \in Is2xx
  /\ responses = 5 /\ ok_run = 5
  /\ current_delay = base_delay

\* C38: the source_count of a prediction row is never less than the length
\* of its source_ids: it is the number of times an id that was not in
\* source_ids at that time has been appended, going up by one with each
\* such append (also of an id that the cap of 100 had dropped) and staying
\* as it is, like the list, when the id is in the list.
C38_SourceCount ==
  /\ [](LET r == constituency_predictions[LineageKey]
        IN  r # NoRow => /\ r.source_count >= Len(r.source_ids)
                         /\ r.source_count = Len(appended))
  /\ [][LET old == constituency_predictions[LineageKey]
            new == constituency_predictions'[LineageKey]
        IN  (old # NoRow /\ new # NoRow) =>
              IF appended' # appended
              THEN /\ new.source_count = old.source_count + 1
                   /\ new.source_ids[Len(new.source_ids)]
                        \notin Elems(old.source_ids)
              ELSE /\ new.source_count = old.source_count
                   /\ new.source_ids = old.source_ids]_vars

\* id 1, dropped by the cap, came again and was counted again: 101 different
\* ids, 100 of them in the list, and a count of 102
C38_Witness ==
  LET r == constituency_predictions[LineageKey]
  IN  /\ r # NoRow
      /\ appended[1] = 1
      /\ appended[Len(appended)] = 1
      /\ Cardinality(Elems(appended)) = 101
      /\ Len(r.source_ids) = 100
      /\ r.source_count = 102

\* the content id of the job Consumer c ran, read from its blob
ContentOf(c) == get_content_id(storage[job_queue[job_id[c]].file_path])

C39_WitnessSkipped ==
  /\ storage = <<PayLocal, PayLocal>>
  /\ Returned("c1") /\ exit_taken["c1"] = "duplicate"
  /\ job_id["c1"] = 2
  /\ StatusOf(1) = "DONE" /\ StatusOf(2) = "DONE"
  /\ "v1" \in processed_content
  /\ \A k \in Keys : constituency_predictions[k] = NoRow

\* C40: the update of a prediction row that goes through for a job whose
\* content id is in the row's source_ids leaves source_ids and source_count
\* as they are and sets sentiment_score to the moving average of the old
\* score and the job's score, as for any other job.
C40_RescoredContent ==
  [][\A c \in active :
       LET k == <<Head(todo[c]), detect_alliance(data[c])>>
           old == constituency_predictions[k]
           new == constituency_predictions'[k]
       IN  (/\ pc[c] = "upsert_write" /\ Step(c)
            /\ failed_calls'[c] = failed_calls[c]
            /\ old # NoRow
            /\ get_content_id(data[c]) \in Elems(old.source_ids))
             => /\ new.source_ids = old.source_ids
                /\ new.source_count = old.source_count
                /\ new.sentiment_score =
                     IF StateWideJob(c)
                     THEN RoundHalfEven(95 * old.sentiment_score
                                        + 5 * score[c], 100)
                     ELSE RoundHalfEven(9 * old.sentiment_score
                                        + score[c], 10)]_vars

\* deduplication disabled: the Chennai content, scored 1.0 in a job whose
\* comments the classifier failed on, was scored 0.7143 in a second job; the
\* row went from 1.0 to 0.9714 with one source id and a count of 1
C40_Witness ==
  LET r == constituency_predictions[<<"Harbour", "DMK_Front">>]
  IN  /\ ~ENABLE_DEDUPLICATION
      /\ storage = <<PayLocal, PayLocal>>
      /\ pc["c1"] = "mark" /\ job_id["c1"] = 2
      /\ score["c1"] = 7143
      /\ r # NoRow
      /\ r.source_ids = <<"v1">>
      /\ r.source_count = 1
      /\ r.sentiment_score = 9714

\* deduplication enabled, the ledger lookup of the second job failed
C40_WitnessLookupFailed ==
  LET r == constituency_predictions[<<"Harbour", "DMK_Front">>]
  IN  /\ ENABLE_DEDUPLICATION
      /\ "v1" \in processed_content
      /\ pc["c1"] = "mark" /\ job_id["c1"] = 2
      /\ data["c1"] = PayLocal
      /\ failed_calls["c1"] = {"is_duplicate_content"}
      /\ r # NoRow
      /\ r.source_ids = <<"v1">>
      /\ r.source_count = 1

TypeOK ==
  /\ \A j \in 1..Len(job_queue) :
       job_queue[j].status \in {"PENDING", "PROCESSING", "DONE", "FAILED"}
  /\ faults \in 0..fault_budget

====
